---- MODULE Spec2Model ----
(***************************************************************************)
(* Model of the NDN certification agent: the mergeable log store           *)
(* (src/src/task.rs) and the polling loop that evaluates the               *)
(* metric/constraint/rule/property DAG once per tick (src/bin/ca.rs).      *)
(***************************************************************************)
EXTENDS Integers, Sequences, FiniteSets, TLC

(***************************************************************************)
(* Bounds of the model.                                                    *)
(***************************************************************************)
\* Largest cycle index of the logs the merge specification starts from.
MaxLogIndex == 2
\* Largest number of merges made into the accumulator.
MaxCalls == 2
\* Largest `index` main's loop reaches.
MaxIndex == 1
\* Largest `index` a task function is called with on its own.
MaxUnitIndex == 6
\* Largest number of M3 samples (the current one included) c5 is called on.
MaxSamples == 6

\* The largest cache capacity, in entries, of the calls of c4 on numbers.
MaxCapacity == 10

(***************************************************************************)
(* task.rs: Measurement, Evaluation, Logs.                                 *)
(* A HashMap is a function with a finite domain; a VecDeque is a sequence  *)
(* of <<index-or-timestamp, value>> pairs.                                 *)
(***************************************************************************)
\* A measurement stamped with the epoch whatever the clock says.
MeasurementAtEpoch(data, index, timestamp) ==
    [data |-> data, index |-> index, timestamp |-> 0]

Measurement(data, index, timestamp) ==
    [data |-> data, index |-> index, timestamp |-> timestamp]

Evaluation(value, index, timestamp) ==
    [value |-> value, index |-> index, timestamp |-> timestamp]

\* HashMap::default()
EmptyMap == <<>>

\* Logs::default()
LogsDefault ==
    [measurements_index     |-> EmptyMap,
     measurements_timestamp |-> EmptyMap,
     evaluations_index      |-> EmptyMap,
     evaluations_timestamp  |-> EmptyMap,
     duration_index         |-> EmptyMap]

\* The four per-key collections of a Logs value.
Collections ==
    {"measurements_index", "measurements_timestamp",
     "evaluations_index", "evaluations_timestamp"}

\* map.entry(k).or_insert_with(Default::default), read side
EntryOf(map, k) == IF k \in DOMAIN map THEN map[k] ELSE <<>>

\* map.entry(k).or_insert_with(Default::default).push_back(e)
PushBack(map, k, e) ==
    [x \in (DOMAIN map) \cup {k} |->
        IF x = k THEN Append(EntryOf(map, k), e) ELSE map[x]]

\* HashMap::insert(k, v)
MapInsert(map, k, v) ==
    [x \in (DOMAIN map) \cup {k} |-> IF x = k THEN v ELSE map[x]]

insert_measurement(self, measurement, metric) ==
    [self EXCEPT
        !.measurements_index =
            PushBack(@, metric, <<measurement.index, measurement.data>>),
        !.measurements_timestamp =
            PushBack(@, metric, <<measurement.timestamp, measurement.data>>)]

with_measurement(self, measurement, metric) ==
    insert_measurement(self, measurement, metric)

insert_evaluation(self, evaluation, task) ==
    [self EXCEPT
        !.evaluations_index =
            PushBack(@, task, <<evaluation.index, evaluation.value>>),
        !.evaluations_timestamp =
            PushBack(@, task, <<evaluation.timestamp, evaluation.value>>)]

with_evaluation(self, evaluation, task) ==
    insert_evaluation(self, evaluation, task)

insert_duration(self, duration, index) ==
    [self EXCEPT !.duration_index = MapInsert(@, index, duration)]

with_duration(self, duration, index) ==
    insert_duration(self, duration, index)

\* deque.back().map(|v| v.0), for a non-empty deque
BackKey(deque) == deque[Len(deque)][1]

\* A comparison that also accepts an incoming tail equal to the receiver's.
NewerOrEqual(s, o) == s <= o

\* `s < o`: the match guard and the take_while predicate of mut_merge
Newer(s, o) == s < o

\* A suffix cut to the incoming tail entry alone.
NewDataTailOnly(s, entry) == SubSeq(entry, Len(entry), Len(entry))

\* entry.iter().rev().take_while(|(o, _)| s < *o), put back in order:
\* the longest suffix of entry all of whose keys are newer than s.
NewData(s, entry) ==
    LET starts == {j \in 1..(Len(entry) + 1) :
                      \A i \in j..Len(entry) : Newer(s, entry[i][1])}
        first  == CHOOSE j \in starts : \A k \in starts : j <= k
    IN  SubSeq(entry, first, Len(entry))

\* A merge that takes the incoming deque for its own.
MergeDequeTakesIncoming(mine, entry) == IF entry # <<>> THEN entry ELSE mine

\* A merge that appends the whole incoming deque.
MergeDequeExtendAll(mine, entry) == mine \o entry

\* A merge without the (None, Some(_)) arm.
MergeDequeNoAdopt(mine, entry) ==
    IF mine # <<>> /\ entry # <<>> /\ Newer(BackKey(mine), BackKey(entry))
    THEN mine \o NewData(BackKey(mine), entry)
    ELSE mine

\* One iteration of a mut_merge loop: the match on (self back, other back).
MergeDeque(mine, entry) ==
    IF mine # <<>> /\ entry # <<>> /\ Newer(BackKey(mine), BackKey(entry))
    THEN mine \o NewData(BackKey(mine), entry)
    ELSE IF mine = <<>> /\ entry # <<>>
    THEN entry
    ELSE mine

\* One `for (metric, entry) in other.<collection>.iter()` loop of mut_merge.
MergeCollection(mine, other) ==
    [k \in (DOMAIN mine) \cup (DOMAIN other) |->
        IF k \in DOMAIN other
        THEN MergeDeque(EntryOf(mine, k), other[k])
        ELSE mine[k]]

\* self.duration_index.extend(other.duration_index...)
MergeDuration(mine, other) ==
    [k \in (DOMAIN mine) \cup (DOMAIN other) |->
        IF k \in DOMAIN other THEN other[k] ELSE mine[k]]

mut_merge(self, other) ==
    [measurements_index |->
        MergeCollection(self.measurements_index, other.measurements_index),
     measurements_timestamp |->
        MergeCollection(self.measurements_timestamp, other.measurements_timestamp),
     evaluations_index |->
        MergeCollection(self.evaluations_index, other.evaluations_index),
     evaluations_timestamp |->
        MergeCollection(self.evaluations_timestamp, other.evaluations_timestamp),
     duration_index |->
        MergeDuration(self.duration_index, other.duration_index)]

\* let mut res = self.clone(); res.mut_merge(other); res
merge(self, other) == mut_merge(self, other)

\* A dictionary that keeps the newest entry of the deque alone.
CollectMapNewestOnly(deque) ==
    IF deque = <<>> THEN <<>>
    ELSE [k \in {deque[Len(deque)][1]} |-> deque[Len(deque)][2]]

\* entries.iter().cloned().collect::<HashMap<_, _>>(): of two entries with one
\* key the later one stays.
CollectMap(deque) ==
    [k \in {deque[i][1] : i \in 1..Len(deque)} |->
        deque[CHOOSE i \in 1..Len(deque) :
                 /\ deque[i][1] = k
                 /\ \A j \in (i + 1)..Len(deque) : deque[j][1] # k][2]]

\* Logs::to_table: every deque flattened to a dictionary, duration_index cloned.
to_table(self) ==
    LET Flat(collection) == [k \in DOMAIN collection |-> CollectMap(collection[k])]
    IN  [measurements_index     |-> Flat(self.measurements_index),
         measurements_timestamp |-> Flat(self.measurements_timestamp),
         evaluations_index      |-> Flat(self.evaluations_index),
         evaluations_timestamp  |-> Flat(self.evaluations_timestamp),
         duration_index         |-> self.duration_index]

(***************************************************************************)
(* The data of the certification agent (bin/ca.rs).                        *)
(***************************************************************************)

\* const TIMEOUT: Duration = Duration::from_millis(1000); the unit of time
\* of this module is the millisecond.
TIMEOUT == 1000

\* const CS_ENTRY_SIZE: u64 = 8192;
CS_ENTRY_SIZE == 8192

\* sleep(Duration::from_secs(1)) at the end of every tick, in milliseconds.
SleepMillis == 1000

\* chrono::Duration::minutes(-2), the trailing window of the rules, as a
\* positive number of milliseconds.
WindowMillis == 2 * 60 * 1000

\* An f64: a number, or NaN, which compares false with everything.
F64(v) == [nan |-> FALSE, v |-> v]
NaN == [nan |-> TRUE, v |-> 0]
is_nan(a) == a.nan
F64Lt(a, b) == ~a.nan /\ ~b.nan /\ a.v < b.v
F64Le(a, b) == ~a.nan /\ ~b.nan /\ a.v <= b.v
F64Ge(a, b) == ~a.nan /\ ~b.nan /\ a.v >= b.v

\* task::PacketStatistics / nfdc::PacketStatistics
PacketStatistics(min, max, avg, std_dev) ==
    [min |-> min, max |-> max, avg |-> avg, std_dev |-> std_dev]

\* nfdc::Face, with the fields the metrics read.
Face(face_id, n_interests, n_data, n_nacks, ips, dps, ipc, dpc) ==
    [face_id |-> face_id,
     packet_counters |->
        [incoming_packets |-> [n_interests |-> n_interests, n_data |-> 0, n_nacks |-> 0],
         outgoing_packets |-> [n_interests |-> 0, n_data |-> n_data, n_nacks |-> n_nacks]],
     interest_packet_size |-> ips,
     data_packet_size |-> dps,
     interest_packet_components |-> ipc,
     data_packet_components |-> dpc]

\* A forwarder that satisfies every constraint on it (nfdc::NfdcStatus).
NfdHealthy ==
    [cs |-> [capacity |-> 1000, n_entries |-> 950, policy_name |-> "lru",
             min_size |-> 10, max_size |-> 90,
             average_size |-> F64(50), std_dev_size |-> F64(2),
             valid_signature_packets |-> 7, invalid_signature_packets |-> 0],
     faces |-> [face |-> <<
        Face(1, 10, 4, 1,
             PacketStatistics(40, 60, F64(50), F64(1)),
             PacketStatistics(100, 900, F64(500), F64(9)),
             PacketStatistics(4, 6, F64(5), F64(1)),
             PacketStatistics(4, 6, F64(5), F64(1))),
        Face(2, 0, 0, 0,
             PacketStatistics(10, 10, NaN, NaN),
             PacketStatistics(10, 10, NaN, NaN),
             PacketStatistics(0, 0, NaN, NaN),
             PacketStatistics(0, 0, NaN, NaN)) >>],
     strategy_choices |-> [strategy_choice |-> <<
        [namespace |-> "/", strategy |-> [name |-> "/localhost/nfd/strategy/best-route"]] >>]]

\* A forwarder that violates the constraints on it.
NfdDegraded ==
    [cs |-> [capacity |-> 200000, n_entries |-> 10, policy_name |-> "priority_fifo",
             min_size |-> 1, max_size |-> 9000,
             average_size |-> F64(12), std_dev_size |-> F64(40),
             valid_signature_packets |-> 7, invalid_signature_packets |-> 3],
     faces |-> [face |-> <<
        Face(1, 500, 4, 1,
             PacketStatistics(2, 60, F64(50), F64(1)),
             PacketStatistics(3, 900, F64(500), F64(9)),
             PacketStatistics(1, 60, F64(20), F64(1)),
             PacketStatistics(1, 60, F64(2), F64(1))) >>],
     strategy_choices |-> [strategy_choice |-> << >>]]

NfdStatusValues == {NfdHealthy, NfdDegraded}

\* sys.memory().total in bytes.
HostTotalMemoryValues == {16000000}

\* ndnsec::list::Certificate
Certificate(is_default, identity, key, certificate) ==
    [is_default |-> is_default, identity |-> identity,
     key |-> key, certificate |-> certificate]

\* ndnsec::list::CertificateList: no certificate at all, or one default one.
CertificateListValues ==
    {[certificates |-> << >>],
     [certificates |-> <<Certificate(TRUE, "/alice", "/alice/KEY/1",
                                     "/alice/KEY/1/self/1")>>]}

\* ndnsec::dump::CertificateInfo, with the fields the metrics read: the
\* validity interval, in milliseconds of the clock of this module.
CertificateInfo(certificate_name, validity_not_before, validity_not_after) ==
    [certificate_name |-> certificate_name,
     validity_not_before |-> validity_not_before,
     validity_not_after |-> validity_not_after]

\* A certificate valid over the whole run, and one that expired before it.
CertificateInfoValues ==
    {CertificateInfo("/alice/KEY/1/self/1", -1000, 100000000),
     CertificateInfo("/alice/KEY/1/self/1", -1000, -1)}

\* Result<T, Error>
Ok(v) == [ok |-> TRUE, v |-> v]
Err(e) == [ok |-> FALSE, e |-> e]

\* task::Logging(result, logs)
Logging(result, logs) == [result |-> result, logs |-> logs]

\* faces.into_iter().map(|f| (f.face_id, g(f))).collect::<HashMap<_, _>>():
\* of two faces with one id the later one stays.
FaceMap(res, g(_)) ==
    LET face == res.faces.face
        Last(id) == CHOOSE i \in 1..Len(face) :
                        /\ face[i].face_id = id
                        /\ \A j \in (i + 1)..Len(face) : face[j].face_id # id
    IN  [id \in {face[i].face_id : i \in 1..Len(face)} |-> g(face[Last(id)])]

\* The measurement of a metric and the log it is inserted into: the tail of
\* every m1 .. m14, after the snapshot has been obtained.
Measured(data, metric, index, logs, now) ==
    LET measurement == Measurement(data, index, now)
    IN  Logging(measurement, insert_measurement(logs, measurement, metric))

m1(res, index, logs, now) ==
    Measured(<<"M1", res.cs.policy_name>>, "M1", index, logs, now)

\* An m2 that reports the entries in use.
m2ReportsUsage(res, index, logs, now) ==
    Measured(<<"M2", res.cs.n_entries>>, "M2", index, logs, now)

m2(res, index, logs, now) ==
    Measured(<<"M2", res.cs.capacity>>, "M2", index, logs, now)

m3(res, index, logs, now) ==
    Measured(<<"M3", res.cs.n_entries>>, "M3", index, logs, now)

m4(res, index, logs, now) ==
    Measured(<<"M4", PacketStatistics(res.cs.min_size, res.cs.max_size,
                                      res.cs.average_size, res.cs.std_dev_size)>>,
             "M4", index, logs, now)

m5(res, index, logs, now) ==
    LET sc == res.strategy_choices.strategy_choice
        Last(ns) == CHOOSE i \in 1..Len(sc) :
                        /\ sc[i].namespace = ns
                        /\ \A j \in (i + 1)..Len(sc) : sc[j].namespace # ns
    IN  Measured(<<"M5", [ns \in {sc[i].namespace : i \in 1..Len(sc)} |->
                             sc[Last(ns)].strategy.name]>>,
                 "M5", index, logs, now)

m6(res, index, logs, now) ==
    LET Pending(f) == f.packet_counters.incoming_packets.n_interests
                      - f.packet_counters.outgoing_packets.n_data
                      - f.packet_counters.outgoing_packets.n_nacks
    IN  Measured(<<"M6", FaceMap(res, Pending)>>, "M6", index, logs, now)

m7(res, index, logs, now) ==
    LET Stat(f) == f.interest_packet_size
    IN  Measured(<<"M7", FaceMap(res, Stat)>>, "M7", index, logs, now)

m8(res, index, logs, now) ==
    LET Stat(f) == f.data_packet_size
    IN  Measured(<<"M8", FaceMap(res, Stat)>>, "M8", index, logs, now)

m9(res, index, logs, now) ==
    LET Stat(f) == f.interest_packet_components
    IN  Measured(<<"M9", FaceMap(res, Stat)>>, "M9", index, logs, now)

m10(res, index, logs, now) ==
    LET Stat(f) == f.data_packet_components
    IN  Measured(<<"M10", FaceMap(res, Stat)>>, "M10", index, logs, now)

\* certificate_info is the output of try_join_all: the pairs (identity, info)
\* in the order of the certificate list.
m11(certificate_info, index, logs, now) ==
    LET Last(id) == CHOOSE i \in 1..Len(certificate_info) :
                        /\ certificate_info[i][1] = id
                        /\ \A j \in (i + 1)..Len(certificate_info) :
                               certificate_info[j][1] # id
    IN  Measured(<<"M11",
                   [id \in {certificate_info[i][1] : i \in 1..Len(certificate_info)} |->
                       <<certificate_info[Last(id)][2].validity_not_before,
                         certificate_info[Last(id)][2].validity_not_after>>]>>,
                 "M11", index, logs, now)

\* Option<String>: None is <<>>, Some(c) is <<c>>.
m12(res, index, logs, now) ==
    LET IsDefault(c) == c.is_default
        defaults == SelectSeq(res.certificates, IsDefault)
    IN  Measured(<<"M12", IF defaults = << >> THEN << >>
                          ELSE <<defaults[1].certificate>> >>,
                 "M12", index, logs, now)

m13(res, index, logs, now) ==
    Measured(<<"M13", res>>, "M13", index, logs, now)

m14(res, index, logs, now) ==
    Measured(<<"M14", res.cs.valid_signature_packets,
                      res.cs.invalid_signature_packets>>, "M14", index, logs, now)

\* The evaluation of a task and the log it is inserted into: the tail of
\* every c1 .. c15, r1 .. r8, p1 .. p3; `value` is a Result<bool, Error>.
Evaluated(value, task, index, logs, now) ==
    IF ~value.ok THEN value
    ELSE LET evaluation == Evaluation(value.v, index, now)
         IN  Ok(Logging(evaluation, insert_evaluation(logs, evaluation, task)))

WrongDependency == Err("EvaluationError: Wrong dependency task provided")

c1(M1, index, now) ==
    LET data == M1.result.data
    IN  Evaluated(IF data[1] = "M1" THEN Ok(data[2] = "lru") ELSE WrongDependency,
                  "C1", index, M1.logs, now)

\* A u64 as four 16-bit limbs, the least significant first.
LimbBase == 256 * 256

\* The u64 of a number below 2^31.
U64(n) == <<n % LimbBase, (n \div LimbBase) % LimbBase, 0, 0>>

\* x * k for a factor k below 2^15, exact: one limb more than x, the last
\* limb being what does not fit.
RECURSIVE MulLimbs(_, _, _, _)
MulLimbs(x, k, i, carry) ==
    IF i > Len(x) THEN <<carry>>
    ELSE <<(x[i] * k + carry) % LimbBase>>
             \o MulLimbs(x, k, i + 1, (x[i] * k + carry) \div LimbBase)

\* u64 * u64 in a build without overflow checks: the low 64 bits.
wrapping_mul(x, k) == SubSeq(MulLimbs(x, k, 1, 0), 1, 4)

\* u64 * u64 in a build with overflow checks panics when this holds.
mul_overflows(x, k) == MulLimbs(x, k, 1, 0)[5] # 0

\* x / d for a divisor d below 2^15.
RECURSIVE DivLimbs(_, _, _, _)
DivLimbs(x, d, i, rem) ==
    IF i = 0 THEN << >>
    ELSE DivLimbs(x, d, i - 1, (rem * LimbBase + x[i]) % d)
             \o <<(rem * LimbBase + x[i]) \div d>>

\* x <= y, limbs compared from the most significant down.
RECURSIVE LeLimbs(_, _, _)
LeLimbs(x, y, i) ==
    IF i = 0 THEN TRUE
    ELSE IF x[i] # y[i] THEN x[i] < y[i]
    ELSE LeLimbs(x, y, i - 1)

\* A guard that compares the number of entries, not their bytes.
c2_guard_in_entries(cs_entries, total_memory) ==
    LeLimbs(cs_entries, DivLimbs(wrapping_mul(total_memory, 80), 100, 4, 0), 4)

\* The guard of c2 on two u64 where no multiplication panics:
\* total_memory * 80 / 100 >= cs_entries * CS_ENTRY_SIZE.
c2_guard(cs_entries, total_memory) ==
    LeLimbs(wrapping_mul(cs_entries, CS_ENTRY_SIZE),
            DivLimbs(wrapping_mul(total_memory, 80), 100, 4, 0), 4)

c2(M2, M13, index, now) ==
    LET d2  == M2.result.data
        d13 == M13.result.data
    IN  Evaluated(IF d2[1] = "M2" /\ d13[1] = "M13"
                  THEN Ok(c2_guard(U64(d2[2]), U64(d13[2])))
                  ELSE WrongDependency,
                  "C2", index, mut_merge(M2.logs, M13.logs), now)

c3(M2, index, now) ==
    LET data == M2.result.data
    IN  Evaluated(IF data[1] = "M2" THEN Ok(data[2] <= 100000) ELSE WrongDependency,
                  "C3", index, M2.logs, now)

c4(M2, M3, index, now) ==
    LET d2 == M2.result.data
        d3 == M3.result.data
    IN  Evaluated(IF d2[1] = "M2" /\ d3[1] = "M3"
                  THEN Ok(d3[2] >= (d2[2] * 80) \div 100)
                  ELSE WrongDependency,
                  "C4", index, mut_merge(M2.logs, M3.logs), now)

\* map.entry(k).or_insert_with(Default::default): the key exists afterwards.
OrInsertDefault(map, k) == IF k \in DOMAIN map THEN map ELSE MapInsert(map, k, << >>)

RECURSIVE SumSeq(_)
SumSeq(s) == IF s = << >> THEN 0 ELSE Head(s) + SumSeq(Tail(s))

Abs(x) == IF x < 0 THEN -x ELSE x

\* sqrt(sum((x - mean)^2) / (n - 1)) < 5.0 over the values xs, in integers:
\* with S the sum, (x - mean) is (n * x - S) / n, so the comparison is
\* sum((n * x - S)^2) < 25 * (n - 1) * n^2, which no term with
\* |n * x - S| >= 5 * n * n can satisfy.  One value gives 0.0 / 0.0, NaN, which
\* is not less than 5.0.
\* The deviation with denominator n in place of n - 1.
PopulationStdDevBelowFive(xs) ==
    LET n == Len(xs)
        S == SumSeq(xs)
        dev == [i \in 1..n |-> Abs(n * xs[i] - S)]
    IN  /\ n >= 2
        /\ \A i \in 1..n : dev[i] < 5 * n * n
        /\ SumSeq([i \in 1..n |-> dev[i] * dev[i]]) < 25 * n * n * n

StdDevBelowFive(xs) ==
    LET n == Len(xs)
        S == SumSeq(xs)
        dev == [i \in 1..n |-> Abs(n * xs[i] - S)]
    IN  /\ n >= 2
        /\ \A i \in 1..n : dev[i] < 5 * n * n
        /\ SumSeq([i \in 1..n |-> dev[i] * dev[i]]) < 25 * (n - 1) * n * n

\* A c5 that computes the deviation from the first cycle on.
c5FromFirstCycle(M3, index, now) ==
    LET data  == M3.result.data
        logs  == [M3.logs EXCEPT !.measurements_index = OrInsertDefault(@, "M3")]
        deque == logs.measurements_index["M3"]
        last5 == [i \in 1..(IF Len(deque) < 5 THEN Len(deque) ELSE 5) |->
                     deque[Len(deque) + 1 - i][2]]
        IsM3(d) == d[1] = "M3"
        tagged == SelectSeq(last5, IsM3)
        cs_usages == [i \in 1..Len(tagged) |-> tagged[i][2]]
    IN  IF data[1] = "M3"
        THEN Evaluated(Ok(StdDevBelowFive(cs_usages)), "C5", index, logs, now)
        ELSE WrongDependency

c5(M3, index, now) ==
    LET data  == M3.result.data
        logs  == [M3.logs EXCEPT !.measurements_index = OrInsertDefault(@, "M3")]
        deque == logs.measurements_index["M3"]
        last5 == [i \in 1..(IF Len(deque) < 5 THEN Len(deque) ELSE 5) |->
                     deque[Len(deque) + 1 - i][2]]
        IsM3(d) == d[1] = "M3"
        tagged == SelectSeq(last5, IsM3)
        cs_usages == [i \in 1..Len(tagged) |-> tagged[i][2]]
    IN  IF index < 4 THEN Evaluated(Ok(FALSE), "C5", index, M3.logs, now)
        ELSE IF data[1] = "M3"
             THEN Evaluated(Ok(StdDevBelowFive(cs_usages)), "C5", index, logs, now)
             ELSE WrongDependency

c6(M4, index, now) ==
    LET data == M4.result.data
    IN  Evaluated(IF data[1] = "M4" THEN Ok(F64Le(data[2].std_dev, F64(5)))
                  ELSE WrongDependency,
                  "C6", index, M4.logs, now)

c7(M4, index, now) ==
    LET data == M4.result.data
    IN  Evaluated(IF data[1] = "M4" THEN Ok(F64Ge(data[2].avg, F64(20)))
                  ELSE WrongDependency,
                  "C7", index, M4.logs, now)

c8(M6, index, now) ==
    LET data == M6.result.data
    IN  Evaluated(IF data[1] = "M6"
                  THEN Ok(\A f \in DOMAIN data[2] : data[2][f] < 100)
                  ELSE WrongDependency,
                  "C8", index, M6.logs, now)

c9(M7, index, now) ==
    LET data == M7.result.data
    IN  Evaluated(IF data[1] = "M7"
                  THEN Ok(\A f \in DOMAIN data[2] : data[2][f].min >= 10)
                  ELSE WrongDependency,
                  "C9", index, M7.logs, now)

\* The bound checked on every face, NaN averages included.
AvgInRangeUnfiltered(v) ==
    \A f \in DOMAIN v : F64Lt(F64(3), v[f].avg) /\ F64Lt(v[f].avg, F64(12))

\* v.values().filter(|s| !s.avg.is_nan()).all(|s| 3.0 < s.avg && s.avg < 12.0)
AvgInRange(v) ==
    \A f \in DOMAIN v :
        ~is_nan(v[f].avg) => F64Lt(F64(3), v[f].avg) /\ F64Lt(v[f].avg, F64(12))

c10(M9, index, now) ==
    LET data == M9.result.data
    IN  Evaluated(IF data[1] = "M9" THEN Ok(AvgInRange(data[2])) ELSE WrongDependency,
                  "C10", index, M9.logs, now)

c11(M8, index, now) ==
    LET data == M8.result.data
    IN  Evaluated(IF data[1] = "M8"
                  THEN Ok(\A f \in DOMAIN data[2] : data[2][f].min >= 10)
                  ELSE WrongDependency,
                  "C11", index, M8.logs, now)

c12(M10, index, now) ==
    LET data == M10.result.data
    IN  Evaluated(IF data[1] = "M10" THEN Ok(AvgInRange(data[2])) ELSE WrongDependency,
                  "C12", index, M10.logs, now)

c13(M11, index, now) ==
    LET data == M11.result.data
    IN  Evaluated(IF data[1] = "M11"
                  THEN Ok(\A id \in DOMAIN data[2] :
                              data[2][id][1] < now /\ now < data[2][id][2])
                  ELSE WrongDependency,
                  "C13", index, M11.logs, now)

c14(M12, index, now) ==
    LET data == M12.result.data
    IN  Evaluated(IF data[1] = "M12" THEN Ok(data[2] # << >>) ELSE WrongDependency,
                  "C14", index, M12.logs, now)

c15(M14, index, now) ==
    LET data == M14.result.data
    IN  Evaluated(IF data[1] = "M14" THEN Ok(data[3] = 0) ELSE WrongDependency,
                  "C15", index, M14.logs, now)

\* deque.iter().rev().take_while(|(timestamp, _)| *timestamp >= now + duration)
\*      .all(|(_, value)| *value)
\* over logs.evaluations_timestamp[t]: every evaluation of the trailing run of
\* entries no older than the window is true.
\* A window that leaves out the entry on its boundary.
WindowAllExclusive(logs, t, now) ==
    LET deque == EntryOf(logs.evaluations_timestamp, t)
    IN  \A i \in 1..Len(deque) :
            (\A j \in i..Len(deque) : deque[j][1] > now - WindowMillis)
                => deque[i][2]

\* A scan that looks at the newest evaluation alone.
WindowAllNewestOnly(logs, t, now) ==
    LET deque == EntryOf(logs.evaluations_timestamp, t)
    IN  deque # << >> => deque[Len(deque)][2]

WindowAll(logs, t, now) ==
    LET deque == EntryOf(logs.evaluations_timestamp, t)
    IN  \A i \in 1..Len(deque) :
            (\A j \in i..Len(deque) : deque[j][1] >= now - WindowMillis)
                => deque[i][2]

\* logs_a.mut_merge(&logs_b).mut_merge(&logs_c) ... over the logs of the
\* dependencies, in the order of the arguments.
RECURSIVE MergeAll(_, _)
MergeAll(logs, others) ==
    IF others = << >> THEN logs
    ELSE MergeAll(mut_merge(logs, Head(others).logs), Tail(others))

\* The rules and properties that look back over the window: merge the logs of
\* the dependencies `deps` (the Logging values `L`), evaluate every dependency
\* over the window, insert the evaluation.
Windowed(task, deps, L, index, now) ==
    LET RECURSIVE Touch(_, _)
        Touch(map, ts) == IF ts = << >> THEN map
                          ELSE Touch(OrInsertDefault(map, Head(ts)), Tail(ts))
        \* `all` stops at the first task whose window holds a false evaluation:
        \* the entries of the tasks after it are not created.
        Aggregate(merged_logs) ==
            LET passing == {i \in 1..Len(deps) : WindowAll(merged_logs, deps[i], now)}
                visited == {i \in 1..Len(deps) : \A j \in 1..(i - 1) : j \in passing}
                logs == [merged_logs EXCEPT !.evaluations_timestamp =
                            Touch(@, SubSeq(deps, 1, Cardinality(visited)))]
            IN  Evaluated(Ok(passing = 1..Len(deps)), task, index, logs, now)
    IN  CHOOSE r \in {Aggregate(m) : m \in {MergeAll(L[1].logs, Tail(L))}} : TRUE

r1(C1, C2, C3, index, now) ==
    Evaluated(Ok(C1.result.value /\ C2.result.value /\ C3.result.value),
              "R1", index, MergeAll(C1.logs, <<C2, C3>>), now)

r2(C4, C5, C6, C7, index, now) ==
    Windowed("R2", <<"C4", "C5", "C6", "C7">>, <<C4, C5, C6, C7>>, index, now)

r3(C8, index, now) == Windowed("R3", <<"C8">>, <<C8>>, index, now)

r4(C9, C10, index, now) == Windowed("R4", <<"C9", "C10">>, <<C9, C10>>, index, now)

r5(C11, C12, index, now) == Windowed("R5", <<"C11", "C12">>, <<C11, C12>>, index, now)

r6(C13, index, now) == Windowed("R6", <<"C13">>, <<C13>>, index, now)

r7(C14, index, now) == Windowed("R7", <<"C14">>, <<C14>>, index, now)

r8(C15, index, now) == Windowed("R8", <<"C15">>, <<C15>>, index, now)

p1(R1, R2, R3, R4, R5, index, now) ==
    Windowed("P1", <<"R1", "R2", "R3", "R4", "R5">>, <<R1, R2, R3, R4, R5>>, index, now)

p2(R6, R7, index, now) == Windowed("P2", <<"R6", "R7">>, <<R6, R7>>, index, now)

\* A p3 that looks at the rules of p2 only.
p3WithoutR8(R6, R7, R8, index, now) ==
    Windowed("P3", <<"R6", "R7">>, <<R6, R7, R8>>, index, now)

p3(R6, R7, R8, index, now) ==
    Windowed("P3", <<"R6", "R7", "R8">>, <<R6, R7, R8>>, index, now)

\* main: let _evaluation = evaluation_1.value && evaluation_2.value
\*                          && evaluation_3.value;
cycle_evaluation(evaluation_1, evaluation_2, evaluation_3) ==
    evaluation_1.value /\ evaluation_2.value /\ evaluation_3.value

(***************************************************************************)
(* The dependency graph wired by main (bin/ca.rs): the three snapshot      *)
(* futures, the metrics over them, the constraints, rules and properties.  *)
(***************************************************************************)
Snapshots == {"host_total_memory", "nfd_status", "certificate_list"}

\* _m5_f is created but no task awaits it.
Metrics == {"M1", "M2", "M3", "M4", "M5", "M6", "M7", "M8", "M9", "M10",
            "M11", "M12", "M13", "M14"}

Constraints == {"C1", "C2", "C3", "C4", "C5", "C6", "C7", "C8", "C9", "C10",
                "C11", "C12", "C13", "C14", "C15"}

Rules == {"R1", "R2", "R3", "R4", "R5", "R6", "R7", "R8"}

Properties == {"P1", "P2", "P3"}

Tasks == Constraints \cup Rules \cup Properties

Nodes == Metrics \cup Tasks

\* The snapshot future handed to each metric.
SnapshotOf(m) ==
    IF m = "M13" THEN "host_total_memory"
    ELSE IF m \in {"M11", "M12"} THEN "certificate_list"
    ELSE "nfd_status"

\* The futures handed to each task, in the order of its try_join.
Deps(t) ==
    CASE t = "C1"  -> <<"M1">>
      [] t = "C2"  -> <<"M2", "M13">>
      [] t = "C3"  -> <<"M2">>
      [] t = "C4"  -> <<"M2", "M3">>
      [] t = "C5"  -> <<"M3">>
      [] t = "C6"  -> <<"M4">>
      [] t = "C7"  -> <<"M4">>
      [] t = "C8"  -> <<"M6">>
      [] t = "C9"  -> <<"M7">>
      [] t = "C10" -> <<"M9">>
      [] t = "C11" -> <<"M8">>
      [] t = "C12" -> <<"M10">>
      [] t = "C13" -> <<"M11">>
      [] t = "C14" -> <<"M12">>
      [] t = "C15" -> <<"M14">>
      [] t = "R1"  -> <<"C1", "C2", "C3">>
      [] t = "R2"  -> <<"C4", "C5", "C6", "C7">>
      [] t = "R3"  -> <<"C8">>
      [] t = "R4"  -> <<"C9", "C10">>
      [] t = "R5"  -> <<"C11", "C12">>
      [] t = "R6"  -> <<"C13">>
      [] t = "R7"  -> <<"C14">>
      [] t = "R8"  -> <<"C15">>
      [] t = "P1"  -> <<"R1", "R2", "R3", "R4", "R5">>
      [] t = "P2"  -> <<"R6", "R7">>
      [] t = "P3"  -> <<"R6", "R7", "R8">>
      [] t = "main" -> <<"P1", "P2", "P3">>

\* The body of metric m run on the value `res` of its snapshot.
RunMetric(m, res, index, logs, now) ==
    CASE m = "M1"  -> m1(res, index, logs, now)
      [] m = "M2"  -> m2(res, index, logs, now)
      [] m = "M3"  -> m3(res, index, logs, now)
      [] m = "M4"  -> m4(res, index, logs, now)
      [] m = "M5"  -> m5(res, index, logs, now)
      [] m = "M6"  -> m6(res, index, logs, now)
      [] m = "M7"  -> m7(res, index, logs, now)
      [] m = "M8"  -> m8(res, index, logs, now)
      [] m = "M9"  -> m9(res, index, logs, now)
      [] m = "M10" -> m10(res, index, logs, now)
      [] m = "M11" -> m11(res, index, logs, now)
      [] m = "M12" -> m12(res, index, logs, now)
      [] m = "M13" -> m13(res, index, logs, now)
      [] m = "M14" -> m14(res, index, logs, now)

\* The body of task t run on the outputs L of its dependencies.
RunTask(t, L, index, now) ==
    CASE t = "C1"  -> c1(L[1], index, now)
      [] t = "C2"  -> c2(L[1], L[2], index, now)
      [] t = "C3"  -> c3(L[1], index, now)
      [] t = "C4"  -> c4(L[1], L[2], index, now)
      [] t = "C5"  -> c5(L[1], index, now)
      [] t = "C6"  -> c6(L[1], index, now)
      [] t = "C7"  -> c7(L[1], index, now)
      [] t = "C8"  -> c8(L[1], index, now)
      [] t = "C9"  -> c9(L[1], index, now)
      [] t = "C10" -> c10(L[1], index, now)
      [] t = "C11" -> c11(L[1], index, now)
      [] t = "C12" -> c12(L[1], index, now)
      [] t = "C13" -> c13(L[1], index, now)
      [] t = "C14" -> c14(L[1], index, now)
      [] t = "C15" -> c15(L[1], index, now)
      [] t = "R1"  -> r1(L[1], L[2], L[3], index, now)
      [] t = "R2"  -> r2(L[1], L[2], L[3], L[4], index, now)
      [] t = "R3"  -> r3(L[1], index, now)
      [] t = "R4"  -> r4(L[1], L[2], index, now)
      [] t = "R5"  -> r5(L[1], L[2], index, now)
      [] t = "R6"  -> r6(L[1], index, now)
      [] t = "R7"  -> r7(L[1], index, now)
      [] t = "R8"  -> r8(L[1], index, now)
      [] t = "P1"  -> p1(L[1], L[2], L[3], L[4], L[5], index, now)
      [] t = "P2"  -> p2(L[1], L[2], index, now)
      [] t = "P3"  -> p3(L[1], L[2], L[3], index, now)

(***************************************************************************)
(* The log store on its own (task.rs, tests module): three logs are built  *)
(* with the insert_* methods, then log2 and log3 are merged, in any order  *)
(* and any number of times, into an accumulator that starts as log1.       *)
(***************************************************************************)
VARIABLES
    tlogs,      \* the logs built by the test: log1, log2, log3
    acc,        \* the receiver of the merges, log1 at first
    merged      \* the logs merged into acc so far, in call order

LogNames == {"log1", "log2", "log3"}

\* tests::Data::M1(v)
DataM1(v) == <<"M1", v>>

\* Utc::now() at the creation of the records of cycle `index`: one cycle per tick.
StampOf(index) == index + 1

\* The indices of a set, in increasing order.
RECURSIVE Ascending(_)
Ascending(I) ==
    IF I = {} THEN <<>>
    ELSE LET lo == CHOOSE i \in I : \A j \in I : i <= j
         IN  <<lo>> \o Ascending(I \ {lo})

\* What a log records for each of its cycles: "full" a measurement, a true
\* evaluation and a duration; "meas" a measurement alone (of another reading);
\* "eval" a false evaluation and a duration.
Kinds == {"full", "meas", "eval"}

\* A log filled cycle by cycle with insert_measurement / insert_evaluation /
\* insert_duration, as tests::test_insert_mut_merge fills log1 and log2.
RECURSIVE FillLog(_, _, _)
FillLog(log, indices, kind) ==
    IF indices = <<>> THEN log
    ELSE LET i  == Head(indices)
             l1 == IF kind \in {"full", "meas"}
                   THEN insert_measurement(log,
                            Measurement(DataM1(IF kind = "full" THEN i ELSE i + 1),
                                        i, StampOf(i)), "M1")
                   ELSE log
             l2 == IF kind \in {"full", "eval"}
                   THEN insert_duration(
                            insert_evaluation(l1,
                                Evaluation(kind = "full", i, StampOf(i)), "R1"),
                            IF kind = "full" THEN 1 ELSE 2, i)
                   ELSE l1
         IN  FillLog(l2, Tail(indices), kind)

FilledLogs ==
    {FillLog(LogsDefault, Ascending(I), kind) :
        I \in SUBSET (0..MaxLogIndex), kind \in Kinds}

\* log1 and log2 of tests::test_insert_mut_merge; the measurement m1 is shared.
TestLog1 ==
    LET a == insert_measurement(LogsDefault, Measurement(DataM1(0), 0, 1), "M1")
        b == insert_measurement(a, Measurement(DataM1(1), 1, 2), "M1")
        c == insert_evaluation(b, Evaluation(TRUE, 0, 3), "R1")
    IN  insert_evaluation(c, Evaluation(TRUE, 1, 4), "R1")

TestLog2 ==
    LET a == insert_measurement(LogsDefault, Measurement(DataM1(1), 1, 2), "M1")
        b == insert_measurement(a, Measurement(DataM1(2), 2, 5), "M1")
        c == insert_measurement(b, Measurement(DataM1(3), 3, 6), "M1")
        d == insert_evaluation(c, Evaluation(FALSE, 2, 7), "R1")
    IN  insert_evaluation(d, Evaluation(FALSE, 3, 8), "R1")

TestLogs == [n \in LogNames |->
                IF n = "log1" THEN TestLog1
                ELSE IF n = "log2" THEN TestLog2 ELSE LogsDefault]

(***************************************************************************)
(* The state of the agent: main's loop (bin/ca.rs, main) and the futures   *)
(* of the tick in progress.                                                *)
(***************************************************************************)
VARIABLES
    pc,                 \* where main is
    index,              \* `index` of the for loop
    now,                \* Utc::now(), in milliseconds
    execution_start,    \* `execution_start` of the tick
    logs,               \* the canonical store: Arc<RwLock<Logs>>
    wlock,              \* the write guard of `logs` is held
    view,               \* the clone of the store handed to each metric
    memory,             \* what sys.memory() answers in this tick
    snap,               \* the three shared snapshot futures
    fanout,             \* the lookups of m11, one per identity
    fut,                \* the shared futures of the metrics and the tasks
    deadline,           \* the expiry of the timeout each metric waits under
    execs,              \* how many times each computation was started in this tick
    writes,             \* how many times the store was write-locked in this tick
    start_logs,         \* the store as main read it when the tick began
    results,            \* per finished tick, "ok" or "err"
    handler,            \* the thread of the ctrlc handler
    flushed,            \* the Table the handler wrote to `path`, << >> before
    call,               \* a task function called on its own: what it was given
    ret                 \* and what it returned

\* The clock is observed in steps of half a timeout.
Quantum == TIMEOUT \div 2

\* The wall clock when main wakes from its sleep: after the sleep, or later
\* than the whole window of the rules.
WakeDelays == {SleepMillis, SleepMillis + WindowMillis}

\* end.timestamp_nanos() - start.timestamp_nanos(), of times in milliseconds.
NanosBetween(start, end) == (end - start) * 1000000

NotStarted == [st |-> "new", out |-> << >>]
Waiting == [st |-> "pending", out |-> << >>]
Done(f) == f.st \in {"ok", "err"}

TimeoutError == Err("TimeoutError")

\* A future that is not shared: every poll of a clone of it before it is done
\* runs the computation again.
StartsOnEveryPoll(n, before) == IF Done(before) THEN 0 ELSE 1

\* A clone of the store that holds nothing of it.
ViewOfNothing(store) == LogsDefault

\* logs.read().unwrap().clone()
ViewOf(store) == store

\* One poll of a Shared future runs the computation if no clone has polled it
\* before; every other poll waits for that one computation.
Starts(n, before) == IF before.st = "new" THEN 1 ELSE 0

MainInit ==
    /\ pc = "tick"
    /\ index = 0
    /\ now = 0
    /\ execution_start = 0
    /\ logs = LogsDefault
    /\ wlock = FALSE
    /\ view = [m \in Metrics |-> LogsDefault]
    /\ memory = Err("TaskError")
    /\ snap = [s \in Snapshots |-> NotStarted]
    /\ fanout = << >>
    /\ fut = [n \in Nodes |-> NotStarted]
    /\ deadline = [m \in Metrics |-> 0]
    /\ execs = [n \in Nodes \cup Snapshots |-> 0]
    /\ writes = 0
    /\ start_logs = LogsDefault
    /\ results = << >>
    /\ handler = "idle"
    /\ flushed = << >>

hvars == <<handler, flushed>>

uvars == <<call, ret>>

ovars == <<pc, index, now, execution_start, logs, wlock, view, memory, snap,
           fanout, fut, deadline, execs, writes, start_logs, results,
           handler, flushed>>

MergeInit ==
    /\ tlogs \in [LogNames -> FilledLogs] \cup {TestLogs}
    /\ acc = tlogs["log1"]
    /\ merged = <<>>
    /\ MainInit
    /\ call = << >>
    /\ ret = << >>

\* acc.mut_merge(&src)
MutMergeCall(src) ==
    /\ Len(merged) < MaxCalls
    /\ acc' = mut_merge(acc, tlogs[src])
    /\ merged' = Append(merged, src)
    /\ UNCHANGED <<tlogs, ovars, uvars>>

\* acc = acc.merge(&src)
MergeCall(src) ==
    /\ Len(merged) < MaxCalls
    /\ acc' = merge(acc, tlogs[src])
    /\ merged' = Append(merged, src)
    /\ UNCHANGED <<tlogs, ovars, uvars>>

MergeNext ==
    \/ \E src \in {"log2", "log3"} : MutMergeCall(src)
    \/ \E src \in {"log2", "log3"} : MergeCall(src)

mvars == <<tlogs, acc, merged, ovars, uvars>>

SpecMerge == MergeInit /\ [][MergeNext]_mvars

(***************************************************************************)
(* One poll of main's try_join3.  A poll walks the graph from the          *)
(* properties down, in the order of the arguments of each try_join, and a  *)
(* try_join returns at the first error it meets: the futures after it are  *)
(* not polled.  St(n) is the state future n is in once polled now.         *)
(***************************************************************************)

\* host_total_memory() has nothing to wait for; the two commands run in a
\* child process.
SnapAfterPoll(s) ==
    IF snap[s].st # "new" THEN snap[s]
    ELSE IF s = "host_total_memory"
         THEN [st |-> IF memory.ok THEN "ok" ELSE "err",
               out |-> IF memory.ok THEN memory.v ELSE memory]
         ELSE Waiting

\* m11: one ndnsec_info(identity).timeout(TIMEOUT) per certificate of the list.
FanoutAfterPoll ==
    IF fanout # << >> THEN fanout
    ELSE LET certificates == SnapAfterPoll("certificate_list").out.certificates
         IN  [i \in 1..Len(certificates) |->
                 [identity |-> certificates[i].identity, st |-> "pending",
                  out |-> << >>, expiry |-> now + TIMEOUT]]

\* A lookup under its timeout: the answer if it is there, else the timer.
LookupSt(l) ==
    IF l.st # "pending" THEN l.st
    ELSE IF l.expiry <= now THEN "err" ELSE "pending"

LookupOut(l) == IF l.st = "pending" THEN TimeoutError ELSE l.out

\* join_all over the lookups: every lookup is awaited to its end.
FanoutStWaitsForAll ==
    LET F == FanoutAfterPoll
    IN  IF \E i \in 1..Len(F) : LookupSt(F[i]) = "pending" THEN "pending"
        ELSE IF \A i \in 1..Len(F) : LookupSt(F[i]) = "ok" THEN "ok"
        ELSE "err"

\* try_join_all over the lookups.
FanoutSt ==
    LET F == FanoutAfterPoll
    IN  IF \E i \in 1..Len(F) : LookupSt(F[i]) = "err" THEN "err"
        ELSE IF \A i \in 1..Len(F) : LookupSt(F[i]) = "ok" THEN "ok"
        ELSE "pending"

\* snapshot_f.timeout(TIMEOUT).await??, then the body of the metric.
MetricSt(m) ==
    IF Done(fut[m]) THEN fut[m].st
    ELSE LET ss == SnapAfterPoll(SnapshotOf(m)).st
         IN  IF ss = "err" THEN "err"
             ELSE IF ss = "ok" THEN (IF m = "M11" THEN FanoutSt ELSE "ok")
             ELSE IF fut[m].st = "pending" /\ deadline[m] <= now THEN "err"
             ELSE "pending"

RECURSIVE St(_)
St(n) ==
    IF n \in Metrics THEN MetricSt(n)
    ELSE IF n # "main" /\ Done(fut[n]) THEN fut[n].st
    ELSE LET d == Deps(n)
             sts == {St(d[i]) : i \in 1..Len(d)}
         IN  IF "err" \in sts THEN "err"
             ELSE IF sts = {"ok"} THEN "ok"
             ELSE "pending"

\* The futures a poll of future n reaches, n included: a try_join polls its
\* arguments in order, up to the first that fails.
RECURSIVE Reached(_)
Reached(n) ==
    IF n \in Metrics \/ (n # "main" /\ Done(fut[n])) THEN {n}
    ELSE LET d == Deps(n)
             sts == [i \in 1..Len(d) |-> St(d[i])]
             upto == {i \in 1..Len(d) : \A j \in 1..(i - 1) : sts[j] # "err"}
         IN  {n} \cup UNION {Reached(d[i]) : i \in upto}

\* The futures this poll of main reaches.
Polled == Reached("main") \ {"main"}

\* The snapshots this poll reaches: those a polled metric still waits for.
SnapPolled(reached) ==
    {SnapshotOf(m) : m \in {x \in reached \cap Metrics :
                                /\ ~Done(fut[x])
                                /\ snap[SnapshotOf(x)].st \in {"new", "pending"}}}

\* The future of metric m after this poll.
MetricAfterPoll(m) ==
    LET s  == SnapAfterPoll(SnapshotOf(m))
        st == MetricSt(m)
        F  == FanoutAfterPoll
    IN  IF Done(fut[m]) THEN fut[m]
        ELSE IF st = "pending" THEN Waiting
        ELSE IF st = "ok"
             THEN [st |-> "ok",
                   out |-> RunMetric(m,
                              IF m = "M11"
                              THEN [i \in 1..Len(F) |-> <<F[i].identity, F[i].out.v>>]
                              ELSE s.out,
                              index, view[m], now)]
        ELSE [st |-> "err",
              out |-> IF s.st = "err" THEN s.out
                      ELSE IF s.st = "ok"
                           THEN LookupOut(F[CHOOSE i \in 1..Len(F) :
                                   /\ LookupSt(F[i]) = "err"
                                   /\ \A j \in 1..(i - 1) : LookupSt(F[j]) # "err"])
                           ELSE TimeoutError]

\* The metrics first, then the constraints, the rules and the properties:
\* every future after the futures it awaits.
PollOrder ==
    <<"M1", "M2", "M3", "M4", "M5", "M6", "M7", "M8", "M9", "M10", "M11", "M12",
      "M13", "M14",
      "C1", "C2", "C3", "C4", "C5", "C6", "C7", "C8", "C9", "C10", "C11", "C12",
      "C13", "C14", "C15",
      "R1", "R2", "R3", "R4", "R5", "R6", "R7", "R8",
      "P1", "P2", "P3">>

Pos(n) == CHOOSE i \in 1..Len(PollOrder) : PollOrder[i] = n

\* A function on 1..n as the sequence of its values.
AsSeq(f) == SubSeq(f, 1, Len(f))

\* A task that turns the error of a dependency into a false evaluation.
TaskCoercesError(t, f) ==
    LET d == Deps(t)
        D == AsSeq([i \in 1..Len(d) |-> f[Pos(d[i])]])
        failed == {i \in 1..Len(d) : D[i].st = "err"}
        coerced == Evaluation(FALSE, index, now)
    IN  IF failed # {}
        THEN [st |-> "ok",
              out |-> Logging(coerced, insert_evaluation(LogsDefault, coerced, t))]
        ELSE IF \A i \in 1..Len(d) : D[i].st = "ok"
             THEN LET r == RunTask(t, AsSeq([i \in 1..Len(d) |-> D[i].out]), index, now)
                  IN  IF r.ok THEN [st |-> "ok", out |-> r.v]
                      ELSE [st |-> "err", out |-> r]
        ELSE Waiting

\* The future of task t after this poll; `f` holds the futures in PollOrder,
\* those of the dependencies of t as this poll leaves them.
TaskAfterPoll(t, f) ==
    LET d == Deps(t)
        D == AsSeq([i \in 1..Len(d) |-> f[Pos(d[i])]])
        failed == {i \in 1..Len(d) : D[i].st = "err"}
    IN  IF failed # {}
        THEN [st |-> "err",
              out |-> D[CHOOSE i \in failed : \A j \in failed : i <= j].out]
        ELSE IF \A i \in 1..Len(d) : D[i].st = "ok"
             THEN LET r == RunTask(t, AsSeq([i \in 1..Len(d) |-> D[i].out]), index, now)
                  IN  IF r.ok THEN [st |-> "ok", out |-> r.v]
                      ELSE [st |-> "err", out |-> r]
        ELSE Waiting

\* The futures `f` once the poll that reaches `reached` has polled those of
\* `layer`.
PollLayer(layer, reached, f) ==
    AsSeq([i \in 1..Len(PollOrder) |->
              LET n == PollOrder[i]
              IN  IF n \in layer /\ n \in reached /\ ~Done(f[i])
                  THEN IF n \in Metrics THEN MetricAfterPoll(n)
                       ELSE TaskAfterPoll(n, f)
                  ELSE f[i]])

(***************************************************************************)
(* The actions of the agent.                                               *)
(***************************************************************************)

tvars == <<tlogs, acc, merged, call, ret>>

\* A tick whose metrics get the views of the tick before.
TickKeepsViews ==
    /\ pc = "tick"
    /\ \E mem \in {Ok(v) : v \in HostTotalMemoryValues}
                    \cup {Err("TaskError: Could not read memory info")} :
          memory' = mem
    /\ execution_start' = now
    /\ view' = view
    /\ start_logs' = logs
    /\ snap' = [s \in Snapshots |-> NotStarted]
    /\ fanout' = << >>
    /\ fut' = [n \in Nodes |-> NotStarted]
    /\ deadline' = [m \in Metrics |-> 0]
    /\ execs' = [n \in Nodes \cup Snapshots |-> 0]
    /\ writes' = 0
    /\ pc' = "poll"
    /\ UNCHANGED <<index, now, logs, wlock, results, tvars, hvars>>

\* The head of the loop body: execution_start, the three snapshot futures,
\* the fourteen metric futures with their clone of the store, the tasks.
Tick ==
    /\ pc = "tick"
    /\ \E mem \in {Ok(v) : v \in HostTotalMemoryValues}
                    \cup {Err("TaskError: Could not read memory info")} :
          memory' = mem
    /\ execution_start' = now
    /\ view' = [m \in Metrics |-> ViewOf(logs)]
    /\ start_logs' = logs
    /\ snap' = [s \in Snapshots |-> NotStarted]
    /\ fanout' = << >>
    /\ fut' = [n \in Nodes |-> NotStarted]
    /\ deadline' = [m \in Metrics |-> 0]
    /\ execs' = [n \in Nodes \cup Snapshots |-> 0]
    /\ writes' = 0
    /\ pc' = "poll"
    /\ UNCHANGED <<index, now, logs, wlock, results, tvars, hvars>>

\* What one poll of try_join3(p1_f, p2_f, p3_f) leaves behind: the futures it
\* reached, polled in PollOrder.
PollOutcome ==
    LET reached == Polled
        snapshots == SnapPolled(reached)
        f0 == AsSeq([i \in 1..Len(PollOrder) |-> fut[PollOrder[i]]])
        f1 == PollLayer(Metrics, reached, f0)
        f2 == PollLayer(Constraints, reached, f1)
        f3 == PollLayer(Rules, reached, f2)
        f4 == PollLayer(Properties, reached, f3)
    IN  [snap |-> [s \in Snapshots |->
                      IF s \in snapshots THEN SnapAfterPoll(s) ELSE snap[s]],
         fanout |-> IF /\ "M11" \in reached
                       /\ ~Done(fut["M11"])
                       /\ SnapAfterPoll("certificate_list").st = "ok"
                    THEN FanoutAfterPoll ELSE fanout,
         fut |-> [n \in Nodes |-> f4[Pos(n)]],
         deadline |-> [m \in Metrics |->
                          IF m \in reached /\ fut[m].st = "new"
                          THEN now + TIMEOUT ELSE deadline[m]],
         execs |-> [n \in Nodes \cup Snapshots |->
                       IF n \in snapshots THEN execs[n] + Starts(n, snap[n])
                       ELSE IF n \in reached /\ ~Done(fut[n])
                            THEN execs[n] + Starts(n, fut[n])
                       ELSE execs[n]]]

\* One poll, and what main makes of try_join3's answer: still pending, Ok of
\* the three outputs, or the first error.
Poll ==
    /\ pc = "poll"
    /\ \E after \in {PollOutcome} :
          /\ snap' = after.snap
          /\ fanout' = after.fanout
          /\ fut' = after.fut
          /\ deadline' = after.deadline
          /\ execs' = after.execs
          /\ pc' = IF \E p \in Properties : after.fut[p].st = "err" THEN "report"
                   ELSE IF \A p \in Properties : after.fut[p].st = "ok" THEN "merge_1"
                   ELSE "await"
    /\ UNCHANGED <<index, now, execution_start, logs, wlock, view, memory,
                   writes, start_logs, results, tvars, hvars>>

\* The child process of a snapshot command ends: its output parsed, or an error.
SnapshotArrives(s, outcome) ==
    /\ pc = "await"
    /\ snap[s].st = "pending"
    /\ snap' = [snap EXCEPT ![s] = outcome]
    /\ pc' = "poll"
    /\ UNCHANGED <<index, now, execution_start, logs, wlock, view, memory, fanout,
                   fut, deadline, execs, writes, start_logs, results, tvars, hvars>>

\* The child process of one certificate lookup ends.
LookupArrives(i, outcome) ==
    /\ pc = "await"
    /\ i \in 1..Len(fanout)
    /\ fanout[i].st = "pending"
    /\ fanout' = [fanout EXCEPT ![i].st = IF outcome.ok THEN "ok" ELSE "err",
                                ![i].out = outcome]
    /\ pc' = "poll"
    /\ UNCHANGED <<index, now, execution_start, logs, wlock, view, memory, snap,
                   fut, deadline, execs, writes, start_logs, results, tvars, hvars>>

\* The timers main is waiting under: those of the metrics whose snapshot is
\* not there yet, and those of the lookups.
Expiries ==
    {deadline[m] : m \in {x \in Metrics : /\ fut[x].st = "pending"
                                           /\ snap[SnapshotOf(x)].st = "pending"}}
    \cup {fanout[i].expiry : i \in {j \in 1..Len(fanout) : fanout[j].st = "pending"}}

\* Time passes while main waits; a timer that expires wakes it.
Elapse ==
    /\ pc = "await"
    /\ Expiries # {}
    /\ LET first == CHOOSE e \in Expiries : \A f \in Expiries : e <= f
           then  == IF now + Quantum < first THEN now + Quantum ELSE first
       IN  /\ now' = then
           /\ pc' = IF then >= first THEN "poll" ELSE "await"
    /\ UNCHANGED <<index, execution_start, logs, wlock, view, memory, snap, fanout,
                   fut, deadline, execs, writes, start_logs, results, tvars, hvars>>

\* Ok(v): logs.write().unwrap().mut_merge(&logs_1).mut_merge(&logs_2)
\*            .mut_merge(&logs_3).insert_duration(...), one merge at a time
\* under the one write guard.
MergeBranch(k) ==
    /\ pc = <<"merge_1", "merge_2", "merge_3">>[k]
    /\ wlock' = TRUE
    /\ writes' = IF wlock THEN writes ELSE writes + 1
    /\ logs' = mut_merge(logs, fut[<<"P1", "P2", "P3">>[k]].out.logs)
    /\ pc' = <<"merge_2", "merge_3", "duration">>[k]
    /\ UNCHANGED <<index, now, execution_start, view, memory, snap, fanout, fut,
                   deadline, execs, start_logs, results, tvars, hvars>>

\* An insert_duration after which the write guard is never dropped.
InsertDurationKeepsGuard ==
    /\ pc = "duration"
    /\ logs' = insert_duration(logs, NanosBetween(execution_start, now), index)
    /\ wlock' = TRUE
    /\ results' = Append(results, "ok")
    /\ pc' = "sleep"
    /\ UNCHANGED <<index, now, execution_start, view, memory, snap, fanout, fut,
                   deadline, execs, writes, start_logs, tvars, hvars>>

InsertDuration ==
    /\ pc = "duration"
    /\ logs' = insert_duration(logs, NanosBetween(execution_start, now), index)
    /\ wlock' = FALSE
    /\ results' = Append(results, "ok")
    /\ pc' = "sleep"
    /\ UNCHANGED <<index, now, execution_start, view, memory, snap, fanout, fut,
                   deadline, execs, writes, start_logs, tvars, hvars>>

\* An Err arm that ends the process.
ReportErrorAndAbort ==
    /\ pc = "report"
    /\ results' = Append(results, "err")
    /\ pc' = "exited"
    /\ UNCHANGED <<index, now, execution_start, logs, wlock, view, memory, snap,
                   fanout, fut, deadline, execs, writes, start_logs, tvars, hvars>>

\* An Err arm that merges the logs of the properties that did finish.
ReportErrorKeepsFinished ==
    /\ pc = "report"
    /\ results' = Append(results, "err")
    /\ LET Kept(l, p) == IF fut[p].st = "ok" THEN mut_merge(l, fut[p].out.logs) ELSE l
       IN  logs' = Kept(Kept(Kept(logs, "P1"), "P2"), "P3")
    /\ pc' = "sleep"
    /\ UNCHANGED <<index, now, execution_start, wlock, view, memory, snap,
                   fanout, fut, deadline, execs, writes, start_logs, tvars, hvars>>

\* Err(e) => eprintln!("{}", e)
ReportError ==
    /\ pc = "report"
    /\ results' = Append(results, "err")
    /\ pc' = "sleep"
    /\ UNCHANGED <<index, now, execution_start, logs, wlock, view, memory, snap,
                   fanout, fut, deadline, execs, writes, start_logs, tvars, hvars>>

\* sleep(Duration::from_secs(1)).await, and the next index.
Sleep ==
    /\ pc = "sleep"
    /\ index < MaxIndex
    /\ \E d \in WakeDelays : now' = now + d
    /\ index' = index + 1
    /\ pc' = "tick"
    /\ UNCHANGED <<execution_start, logs, wlock, view, memory, snap, fanout, fut,
                   deadline, execs, writes, start_logs, results, tvars, hvars>>

\* A handler that reads the store without asking for its lock.
ReadUnlocked == TRUE

\* The write guard of main is not held: logs_ctrl.read() returns.
ReadLockFree == ~wlock

\* A termination signal: the ctrlc thread calls the handler, which asks for
\* the read lock of the store.
SignalArrives ==
    /\ handler = "idle"
    /\ pc # "exited"
    /\ handler' = "waiting"
    /\ UNCHANGED <<pc, index, now, execution_start, logs, wlock, view, memory, snap,
                   fanout, fut, deadline, execs, writes, start_logs, results,
                   flushed, tvars>>

\* The handler under the read lock: to_table, the JSON written to `path`,
\* exit(0), which ends main as well.
HandlerFlush ==
    /\ handler = "waiting"
    /\ ReadLockFree
    /\ flushed' = to_table(logs)
    /\ handler' = "exited"
    /\ pc' = "exited"
    /\ UNCHANGED <<index, now, execution_start, logs, wlock, view, memory, snap,
                   fanout, fut, deadline, execs, writes, start_logs, results, tvars>>

SnapshotOutcomes(s) ==
    IF s = "nfd_status" THEN {[st |-> "ok", out |-> v] : v \in NfdStatusValues}
    ELSE {[st |-> "ok", out |-> v] : v \in CertificateListValues}

CommandError == [st |-> "err", out |-> Err("TaskError")]

Next ==
    \/ Tick
    \/ Poll
    \/ \E s \in {"nfd_status", "certificate_list"} :
          \E outcome \in SnapshotOutcomes(s) \cup {CommandError} :
              SnapshotArrives(s, outcome)
    \/ \E i \in 1..Len(fanout) :
          \E outcome \in {Ok(v) : v \in CertificateInfoValues} \cup {Err("TaskError")} :
              LookupArrives(i, outcome)
    \/ Elapse
    \/ \E k \in 1..3 : MergeBranch(k)
    \/ InsertDuration
    \/ ReportError
    \/ Sleep

vars == <<pc, index, now, execution_start, logs, wlock, view, memory, snap,
          fanout, fut, deadline, execs, writes, start_logs, results,
          handler, flushed, tlogs, acc, merged, call, ret>>

Init ==
    /\ MainInit
    /\ tlogs = TestLogs
    /\ acc = TestLog1
    /\ merged = << >>
    /\ call = << >>
    /\ ret = << >>

Spec == Init /\ [][Next]_vars

(***************************************************************************)
(* The loop of main and the ctrlc handler thread beside it.  The commands  *)
(* answer with one output each, or fail.                                   *)
(***************************************************************************)
SignalOutcomes(s) ==
    IF s = "nfd_status" THEN {[st |-> "ok", out |-> NfdHealthy], CommandError}
    ELSE {[st |-> "ok",
           out |-> [certificates |-> <<Certificate(TRUE, "/alice", "/alice/KEY/1",
                                                   "/alice/KEY/1/self/1")>>]],
          CommandError}

SignalNext ==
    \/ Tick
    \/ Poll
    \/ \E s \in {"nfd_status", "certificate_list"} :
          \E outcome \in SignalOutcomes(s) : SnapshotArrives(s, outcome)
    \/ \E i \in 1..Len(fanout) :
          \E outcome \in {Ok(CertificateInfo("/alice/KEY/1/self/1", -1000, 100000000)),
                          Err("TaskError")} :
              LookupArrives(i, outcome)
    \/ Elapse
    \/ \E k \in 1..3 : MergeBranch(k)
    \/ InsertDuration
    \/ ReportError
    \/ Sleep
    \/ SignalArrives
    \/ HandlerFlush

SpecSignal == Init /\ [][SignalNext]_vars

\* The statement that holds the write guard has no await in it and runs to
\* its end; the handler thread, blocked in read(), is woken when the guard is
\* dropped, and the guard is dropped in every cycle before the sleep.
SpecSignalLive ==
    /\ SpecSignal
    /\ WF_vars(\E k \in 1..3 : MergeBranch(k))
    /\ WF_vars(InsertDuration)
    /\ SF_vars(HandlerFlush)

(***************************************************************************)
(* The loop of main over a key chain of two identities: m11 looks up both  *)
(* certificates, each lookup under its own timeout.                        *)
(***************************************************************************)
TwoCertificates ==
    [certificates |-> <<Certificate(TRUE, "/alice", "/alice/KEY/1",
                                    "/alice/KEY/1/self/1"),
                        Certificate(FALSE, "/bob", "/bob/KEY/1",
                                    "/bob/KEY/1/self/1")>>]

FanoutOutcomes(s) ==
    IF s = "nfd_status" THEN {[st |-> "ok", out |-> NfdHealthy]}
    ELSE {[st |-> "ok", out |-> TwoCertificates]}

FanoutNext ==
    \/ Tick
    \/ Poll
    \/ \E s \in {"nfd_status", "certificate_list"} :
          \E outcome \in FanoutOutcomes(s) : SnapshotArrives(s, outcome)
    \/ \E i \in 1..Len(fanout) :
          \E outcome \in {Ok(v) : v \in CertificateInfoValues} \cup {Err("TaskError")} :
              LookupArrives(i, outcome)
    \/ Elapse
    \/ \E k \in 1..3 : MergeBranch(k)
    \/ InsertDuration
    \/ ReportError
    \/ Sleep

SpecFanout == Init /\ [][FanoutNext]_vars

(***************************************************************************)
(* The task functions on their own (bin/ca.rs, c1 .. c15, r2 .. r8,        *)
(* p1 .. p3): one call of one function on inputs drawn from small sets,    *)
(* whatever the wiring of main.                                            *)
(***************************************************************************)

\* Utc::now() at the call.
UnitNow == 5 * WindowMillis

\* Forwarders seen by the calls only: one whose only face has carried no
\* packet (NaN averages), one with no face, one whose component averages are
\* on the two bounds of C10 and C12.
NfdQuiet == [NfdHealthy EXCEPT !.faces.face = <<NfdHealthy.faces.face[2]>>]

NfdNoFace == [NfdHealthy EXCEPT !.faces.face = << >>]

NfdOnBounds ==
    [NfdHealthy EXCEPT !.faces.face =
        <<Face(1, 10, 4, 1,
               PacketStatistics(40, 60, F64(50), F64(1)),
               PacketStatistics(100, 900, F64(500), F64(9)),
               PacketStatistics(4, 6, F64(3), F64(1)),
               PacketStatistics(4, 6, F64(12), F64(1))),
          NfdHealthy.faces.face[2]>>]

\* The forwarder of the end-to-end example: capacity 10,000 entries, 9,500 of
\* them used, policy "lru".
NfdExample == [NfdHealthy EXCEPT !.cs.capacity = 10000, !.cs.n_entries = 9500]

\* The snapshot values metric m can be run on.
SnapshotValues(m) ==
    IF m = "M13" THEN HostTotalMemoryValues \cup {100000000}
    ELSE IF m = "M12" THEN CertificateListValues
    ELSE IF m = "M11"
         THEN {<< >>} \cup {<< <<"/alice", info>> >> : info \in CertificateInfoValues}
    ELSE NfdStatusValues \cup {NfdQuiet, NfdNoFace, NfdOnBounds, NfdExample}

\* Constraint c called with the outputs of the metrics `supplied`, which need
\* not be the metrics main wires to it.
CallConstraint(c, i, supplied, values) ==
    /\ call = << >>
    /\ LET L == AsSeq([k \in 1..Len(supplied) |->
                          RunMetric(supplied[k], values[k], i, LogsDefault, UnitNow)])
       IN  /\ call' = [fn |-> c, kind |-> "constraint", index |-> i,
                       supplied |-> supplied,
                       values |-> SubSeq(values, 1, Len(supplied)), args |-> L]
           /\ ret' = RunTask(c, L, i, UnitNow)
    /\ UNCHANGED <<ovars, tlogs, acc, merged>>

\* The M3 samples c5 is called on, oldest first, the last one being the
\* measurement of the current cycle: every list of up to MaxSamples values of
\* a cache that holds 100 or 110 entries, and five and six samples of one that
\* holds 100, 101, 99, 102, 98 and then 200.
SampleLists ==
    UNION {[1..n -> {100, 110}] : n \in 1..MaxSamples}
    \cup {<<100, 101, 99, 102, 98>>, <<100, 101, 99, 102, 98, 200>>}

\* The store before cycle i: the prior samples under consecutive indices.
RECURSIVE PriorSamples(_, _, _)
PriorSamples(xs, i, t) ==
    IF xs = << >> THEN LogsDefault
    ELSE insert_measurement(PriorSamples(SubSeq(xs, 1, Len(xs) - 1), i - 1, t - SleepMillis),
                            Measurement(<<"M3", xs[Len(xs)]>>, i, t), "M3")

\* c5 called in cycle i on the output of m3, whose view holds the samples
\* before the last.
CallC5(samples, i) ==
    /\ call = << >>
    /\ i >= Len(samples) - 1
    /\ LET n    == Len(samples)
           prior == PriorSamples(SubSeq(samples, 1, n - 1), i - 1, UnitNow - SleepMillis)
           res  == [NfdHealthy EXCEPT !.cs.n_entries = samples[n]]
       IN  /\ call' = [fn |-> "C5", kind |-> "samples", index |-> i,
                       samples |-> samples]
           /\ ret' = c5(m3(res, i, prior, UnitNow), i, UnitNow)
    /\ UNCHANGED <<ovars, tlogs, acc, merged>>

\* The instants of the evaluations a rule looks back over: before the window,
\* one millisecond before its boundary, on the boundary, inside, and now.
UnitStamps ==
    {UnitNow - 5 * 60 * 1000, UnitNow - WindowMillis - 1, UnitNow - WindowMillis,
     UnitNow - 30 * 1000, UnitNow}

\* The evaluation histories of one task: any of the instants, any values.
Histories ==
    UNION {{[k \in 1..Len(Ascending(S)) |-> <<Ascending(S)[k], vals[Ascending(S)[k]]>>] :
               vals \in [S -> BOOLEAN]} : S \in SUBSET UnitStamps}

\* The log of a task that recorded the history h.
RECURSIVE LogOfHistory(_, _)
LogOfHistory(task, h) ==
    IF h = << >> THEN LogsDefault
    ELSE insert_evaluation(LogOfHistory(task, SubSeq(h, 1, Len(h) - 1)),
                           Evaluation(h[Len(h)][2], Len(h) - 1, h[Len(h)][1]), task)

\* The rules and properties that look back over the window.
WindowedTasks == (Rules \ {"R1"}) \cup Properties

\* Windowed task r called on logs in which its k-th dependency has the history
\* h and each other dependency the history `others`.
CallWindowed(r, k, h, others) ==
    /\ call = << >>
    /\ k \in 1..Len(Deps(r))
    /\ LET d == Deps(r)
           H == AsSeq([j \in 1..Len(d) |-> IF j = k THEN h ELSE others])
           L == AsSeq([j \in 1..Len(d) |->
                          Logging(Evaluation(TRUE, MaxUnitIndex, UnitNow),
                                  LogOfHistory(d[j], H[j]))])
       IN  /\ call' = [fn |-> r, kind |-> "windowed", index |-> MaxUnitIndex,
                       histories |-> H]
           /\ ret' = RunTask(r, L, MaxUnitIndex, UnitNow)
    /\ UNCHANGED <<ovars, tlogs, acc, merged>>

\* c4 called on the measurements of a forwarder whose cache holds `cs_usage`
\* entries out of `cs_entries`.
CallC4(cs_entries, cs_usage) ==
    /\ call = << >>
    /\ LET res == [NfdHealthy EXCEPT !.cs.capacity = cs_entries,
                                     !.cs.n_entries = cs_usage]
       IN  /\ call' = [fn |-> "C4", kind |-> "capacity", index |-> MaxUnitIndex,
                       capacity |-> cs_entries, usage |-> cs_usage]
           /\ ret' = c4(m2(res, MaxUnitIndex, LogsDefault, UnitNow),
                        m3(res, MaxUnitIndex, LogsDefault, UnitNow),
                        MaxUnitIndex, UnitNow)
    /\ UNCHANGED <<ovars, tlogs, acc, merged>>

\* The u64 values the guard of c2 is called on: every value whose limbs are
\* 0, 8 or 65535 (2^51 and 2^64 - 1 among them), and values around the
\* threshold of the guard.
U64Values ==
    [1..4 -> {0, 8, 65535}]
        \cup {U64(8), U64(9765), U64(9766), U64(10000),
              U64(81919), U64(81920), U64(100000000)}

\* A multiplication that leaves the u64 range, in a build with overflow checks.
Panicked == Err("panicked: attempt to multiply with overflow")

\* The guard of c2 called on two u64: a product that leaves the u64 range
\* panics or wraps, as the build has it.
CallC2(cs_entries, total_memory) ==
    /\ call = << >>
    /\ call' = [fn |-> "C2", kind |-> "u64", index |-> MaxUnitIndex,
                cs_entries |-> cs_entries, total_memory |-> total_memory]
    /\ \/ ret' = Ok(c2_guard(cs_entries, total_memory))
       \/ /\ mul_overflows(total_memory, 80) \/ mul_overflows(cs_entries, CS_ENTRY_SIZE)
          /\ ret' = Panicked
    /\ UNCHANGED <<ovars, tlogs, acc, merged>>

\* The verdict main draws from the evaluations of the three properties.
CallVerdict(values) ==
    /\ call = << >>
    /\ call' = [fn |-> "main", kind |-> "verdict", index |-> MaxUnitIndex,
                values |-> values]
    /\ ret' = Ok(cycle_evaluation(Evaluation(values[1], MaxUnitIndex, UnitNow),
                                  Evaluation(values[2], MaxUnitIndex, UnitNow),
                                  Evaluation(values[3], MaxUnitIndex, UnitNow)))
    /\ UNCHANGED <<ovars, tlogs, acc, merged>>

(***************************************************************************)
(* The external commands (command.rs, client.rs, command/mod.rs): the      *)
(* child process has ended with `status` (its exit code as an Option: << >> *)
(* when a signal ended it) and the two captured outputs.                   *)
(***************************************************************************)
\* Vec<u8>: bytes that are the UTF-8 of a text, or that are no UTF-8.
Utf8(text) == [utf8 |-> TRUE, text |-> text]
NotUtf8 == [utf8 |-> FALSE]

\* String::from_utf8(bytes)
from_utf8(bytes) == IF bytes.utf8 THEN Ok(bytes.text) ELSE Err(<<"FromUtf8Error">>)

\* ExitStatus::success()
success(status) == status = <<0>>

\* unimplemented!("code: {:?} - error: {}", code, err)
Unimplemented == Err(<<"panicked: not implemented">>)

\* command::Command::execute (command.rs)
execute(status, stdout, stderr) ==
    IF success(status) THEN from_utf8(stdout)
    ELSE IF ~from_utf8(stderr).ok THEN from_utf8(stderr)
    ELSE LET err == from_utf8(stderr).v
         IN  CASE status = <<1>> -> Err(<<"Error", err>>)
               [] status = <<3>> -> Err(<<"NotFound", err>>)
               [] status = <<4>> -> Err(<<"CanonizeError", err>>)
               [] status = <<5>> -> Err(<<"Ambiguous", err>>)
               [] status = <<6>> -> Err(<<"Nack", err>>)
               [] OTHER -> Unimplemented

\* client::Request::execute (client.rs)
RequestExecute(status, stdout, stderr) ==
    IF success(status) THEN from_utf8(stdout)
    ELSE IF ~from_utf8(stderr).ok THEN from_utf8(stderr)
    ELSE LET err == from_utf8(stderr).v
         IN  CASE status = <<1>> -> Err(<<"Error", err>>)
               [] status = <<3>> -> Err(<<"NotFound", err>>)
               [] status = <<4>> -> Err(<<"CanonizeError", err>>)
               [] status = <<5>> -> Err(<<"Ambiguous", err>>)
               [] status = <<6>> -> Err(<<"Nack", err>>)
               [] OTHER -> Unimplemented

\* command::Command::run (command/mod.rs), the one bin/ca.rs calls
run(status, stdout, stderr) ==
    IF success(status) THEN from_utf8(stdout)
    ELSE IF ~from_utf8(stderr).ok THEN from_utf8(stderr)
    ELSE Err(<<"OutputError", from_utf8(stderr).v>>)

\* Largest exit code a child process ends with.
MaxExitCode == 7

ExitStatuses == {<<c>> : c \in 0..MaxExitCode} \cup {<< >>}

CapturedOutputs == {Utf8(""), Utf8("text"), NotUtf8}

CommandFunctions == {"Command::execute", "Request::execute", "Command::run"}

\* One of the three functions on the output of a child process.
CallCommand(f, status, stdout, stderr) ==
    /\ call = << >>
    /\ call' = [fn |-> f, kind |-> "command", index |-> 0, status |-> status,
                stdout |-> stdout, stderr |-> stderr]
    /\ ret' = CASE f = "Command::execute" -> execute(status, stdout, stderr)
                 [] f = "Request::execute" -> RequestExecute(status, stdout, stderr)
                 [] f = "Command::run" -> run(status, stdout, stderr)
    /\ UNCHANGED <<ovars, tlogs, acc, merged>>

UnitNext ==
    \/ /\ call = << >>
       /\ \E f \in CommandFunctions : \E status \in ExitStatuses :
             \E stdout \in CapturedOutputs : \E stderr \in CapturedOutputs :
                CallCommand(f, status, stdout, stderr)
    \/ /\ call = << >>
       /\ \E c \in Constraints : \E i \in 0..MaxUnitIndex :
             \E supplied \in [1..Len(Deps(c)) -> Metrics] :
                \E v1 \in SnapshotValues(supplied[1]) :
                   \E v2 \in SnapshotValues(supplied[Len(Deps(c))]) :
                      CallConstraint(c, i, supplied, <<v1, v2>>)
    \/ /\ call = << >>
       /\ \E samples \in SampleLists : \E i \in 0..MaxUnitIndex : CallC5(samples, i)
    \/ /\ call = << >>
       /\ \E r \in WindowedTasks : \E k \in 1..5 : \E h \in Histories :
             \E others \in {<< >>, <<<<UnitNow, TRUE>>>>} :
                CallWindowed(r, k, h, others)
    \/ /\ call = << >>
       /\ \E e1 \in BOOLEAN : \E e2 \in BOOLEAN : \E e3 \in BOOLEAN :
             CallVerdict(<<e1, e2, e3>>)
    \/ /\ call = << >>
       /\ \E cs_entries \in 0..MaxCapacity : \E cs_usage \in 0..MaxCapacity :
             CallC4(cs_entries, cs_usage)
    \/ /\ call = << >>
       /\ \E cs_entries \in U64Values : \E total_memory \in U64Values :
             CallC2(cs_entries, total_memory)

UnitInit ==
    /\ MainInit
    /\ tlogs = TestLogs
    /\ acc = TestLog1
    /\ merged = << >>
    /\ call = << >>
    /\ ret = << >>

SpecUnit == UnitInit /\ [][UnitNext]_vars

(***************************************************************************)
(* Properties of the log store.                                            *)
(***************************************************************************)
\* The indices (or timestamps) a deque holds.
KeysOf(deque) == {deque[i][1] : i \in 1..Len(deque)}

StrictlyIncreasing(deque) ==
    \A i \in 1..(Len(deque) - 1) : deque[i][1] < deque[i + 1][1]

\* The store invariant: every per-key sequence is strictly increasing.
StoreInvariant(log) ==
    \A c \in Collections : \A k \in DOMAIN log[c] :
        /\ StrictlyIncreasing(log[c][k])
        /\ \A i, j \in 1..Len(log[c][k]) :
              log[c][k][i][1] = log[c][k][j][1] => i = j

IsPrefix(p, q) == Len(p) <= Len(q) /\ SubSeq(q, 1, Len(p)) = p

\* C1: merging the same delta twice gives the store that merging it once
\* gives, in the four per-key collections and in duration_index.
C1_MergeIdempotent ==
    /\ (Len(merged) = 2 /\ merged[1] = merged[2]) =>
           acc = merge(tlogs["log1"], tlogs[merged[1]])
    /\ merged # <<>> => mut_merge(acc, tlogs[merged[Len(merged)]]) = acc

C1_Witness ==
    \E d \in {"log2", "log3"} :
        /\ merged = <<d, d>>
        /\ acc # tlogs["log1"]
        /\ tlogs[d] # LogsDefault

\* The keys D adds to S under key k of collection c.
Added(S, D, c, k) == KeysOf(EntryOf(D[c], k)) \ KeysOf(EntryOf(S[c], k))

\* D extends S: under every key it holds S's sequence followed by newer entries
\* (or the newer entries alone), and it changes no duration S has.
Extends(S, D) ==
    /\ \A c \in Collections : \A k \in DOMAIN D[c] :
          LET s == EntryOf(S[c], k) IN
          \/ IsPrefix(s, D[c][k])
          \/ s # <<>> /\ \A x \in KeysOf(D[c][k]) : BackKey(s) < x
    /\ \A i \in (DOMAIN D.duration_index) \cap (DOMAIN S.duration_index) :
          D.duration_index[i] = S.duration_index[i]

RangesDisjoint(X, Y) ==
    \/ X = {}
    \/ Y = {}
    \/ \A x \in X : \A y \in Y : x < y
    \/ \A x \in X : \A y \in Y : y < x

\* D1 and D2 extend S under different keys, or under the same key with
\* disjoint index ranges.
DisjointDeltas(S, D1, D2) ==
    /\ Extends(S, D1)
    /\ Extends(S, D2)
    /\ \A c \in Collections : \A k \in (DOMAIN D1[c]) \cap (DOMAIN D2[c]) :
          RangesDisjoint(Added(S, D1, c, k), Added(S, D2, c, k))
    /\ ((DOMAIN D1.duration_index) \ (DOMAIN S.duration_index))
         \cap ((DOMAIN D2.duration_index) \ (DOMAIN S.duration_index)) = {}

\* C2: for disjoint deltas D1 and D2 of S, merging D1 then D2 into S gives
\* the store that merging D2 then D1 gives.
C2_MergeOrderIndependent ==
    (/\ merged = <<"log2", "log3">>
     /\ DisjointDeltas(tlogs["log1"], tlogs["log2"], tlogs["log3"]))
    => acc = merge(merge(tlogs["log1"], tlogs["log3"]), tlogs["log2"])

\* C3: merging D into S loses no entry of S or of D, whatever its index, and
\* keeps every key's entries in increasing index order.
C3_MergeLosesNoEntry ==
    \A d \in {"log2", "log3"} :
        (/\ merged = <<d>>
         /\ StoreInvariant(tlogs["log1"])
         /\ StoreInvariant(tlogs[d]))
        => /\ \A c \in Collections :
                /\ \A k \in DOMAIN tlogs["log1"][c] :
                      k \in DOMAIN acc[c]
                      /\ KeysOf(tlogs["log1"][c][k]) \subseteq KeysOf(acc[c][k])
                /\ \A k \in DOMAIN tlogs[d][c] :
                      k \in DOMAIN acc[c]
                      /\ KeysOf(tlogs[d][c][k]) \subseteq KeysOf(acc[c][k])
           /\ StoreInvariant(acc)

\* C4: after any sequence of merges of stores with strictly increasing
\* indices, every per-key sequence is strictly increasing, no index twice.
C4_MergeMonotonic ==
    /\ merged = <<>> => \A n \in LogNames : StoreInvariant(tlogs[n])
    /\ StoreInvariant(acc)

C4_Witness ==
    /\ Len(merged) >= 2
    /\ merged[1] # merged[2]
    /\ merge(tlogs["log1"], tlogs[merged[1]]) # tlogs["log1"]
    /\ merge(merge(tlogs["log1"], tlogs[merged[1]]), tlogs[merged[2]])
           # merge(tlogs["log1"], tlogs[merged[1]])

\* What C5 says one key's sequence becomes: receiver s, incoming o.
ThreeCases(s, o) ==
    IF s # <<>> /\ o # <<>> /\ BackKey(s) < BackKey(o)
    THEN LET AfterTail(e) == e[1] > BackKey(s) IN s \o SelectSeq(o, AfterTail)
    ELSE IF s = <<>> THEN o ELSE s

\* C5: per key, mut_merge appends exactly the incoming entries newer than the
\* receiver's tail when the incoming tail is newer, adopts the incoming
\* sequence when the receiver has none, and otherwise changes nothing;
\* [0,1] merged with [1,2,3] gives [0,1,2,3], 4 entries by time too.
C5_MergeThreeCases ==
    /\ \A d \in {"log2", "log3"} :
          merged = <<d>> =>
             \A c \in Collections :
                /\ DOMAIN acc[c] = (DOMAIN tlogs["log1"][c]) \cup (DOMAIN tlogs[d][c])
                /\ \A k \in DOMAIN tlogs[d][c] :
                      acc[c][k] = ThreeCases(EntryOf(tlogs["log1"][c], k), tlogs[d][c][k])
                /\ \A k \in (DOMAIN tlogs["log1"][c]) \ (DOMAIN tlogs[d][c]) :
                      acc[c][k] = tlogs["log1"][c][k]
    /\ (tlogs = TestLogs /\ merged = <<"log2">>) =>
          /\ [i \in 1..Len(acc.measurements_index["M1"]) |->
                 acc.measurements_index["M1"][i][1]] = <<0, 1, 2, 3>>
          /\ Len(acc.measurements_timestamp["M1"]) = 4

C5_Witness ==
    /\ tlogs = TestLogs
    /\ merged = <<"log2">>
    /\ Len(acc.measurements_index["M1"]) = 4
    /\ Len(acc.evaluations_index["R1"]) = 4

\* C6: merge is associative on stores that satisfy the store invariant.
C6_MergeAssociative ==
    Len(merged) = 2 =>
        LET A == tlogs["log1"]
            B == tlogs[merged[1]]
            C == tlogs[merged[2]]
        IN  acc = merge(A, merge(B, C))

C6_Witness ==
    /\ merged = <<"log2", "log3">>
    /\ merge(tlogs["log1"], tlogs["log2"]) # tlogs["log1"]
    /\ acc # merge(tlogs["log1"], tlogs["log2"])
    /\ merge(tlogs["log2"], tlogs["log3"]) # tlogs["log2"]
    /\ merge(tlogs["log2"], tlogs["log3"]) # tlogs["log3"]

(***************************************************************************)
(* Properties of the polling loop.                                         *)
(***************************************************************************)

\* The log has an entry of cycle i under key k of the by-index collection.
HasIndex(collection, k, i) ==
    \E j \in 1..Len(EntryOf(collection, k)) : collection[k][j][1] = i

\* The snapshot of the certificate list alone failed in the tick that ended.
OnlyCertificateListFailed ==
    /\ pc = "sleep"
    /\ snap["certificate_list"].st = "err"
    /\ snap["nfd_status"].st = "ok"
    /\ snap["host_total_memory"].st = "ok"

\* C7: branch failure isolation.  When only the certificate-list snapshot
\* fails in a tick, the branches that do not depend on it still complete and
\* are merged: once the tick is over the canonical store holds the tick's
\* measurements of M1-M4, M6-M10 and M13 and its evaluations of C1-C12, R1-R5
\* and P1.
C7_BranchFailureIsolated ==
    OnlyCertificateListFailed =>
        /\ \A m \in {"M1", "M2", "M3", "M4", "M6", "M7", "M8", "M9", "M10", "M13"} :
              HasIndex(logs.measurements_index, m, index)
        /\ \A t \in {"C1", "C2", "C3", "C4", "C5", "C6", "C7", "C8", "C9", "C10",
                     "C11", "C12", "R1", "R2", "R3", "R4", "R5", "P1"} :
              HasIndex(logs.evaluations_index, t, index)

\* C8: memoization.  Within one tick each of the three snapshot calls and
\* each metric, constraint, rule and property computation is started at most
\* once, however many futures await it and however many times it is polled.
C8_ComputedOncePerCycle ==
    \A n \in Nodes \cup Snapshots : execs[n] <= 1

\* A tick whose every computation with a consumer has run, the shared ones
\* (the forwarder status, M2, M3, M4, R6, R7) awaited by all their consumers
\* and polled more than once.
C8_Witness ==
    /\ pc = "merge_1"
    /\ execution_start < now
    /\ \A n \in (Nodes \ {"M5"}) \cup Snapshots : execs[n] = 1
    /\ \A t \in Tasks : fut[t].st = "ok"

\* C9: in every tick the canonical store is written under its exclusive lock
\* exactly once: when the tick is over the write guard has been taken once
\* in it, and outside that one guard the store is as the tick found it.
C9_OneWritePerCycle ==
    /\ pc = "sleep" => writes = 1
    /\ writes <= 1
    /\ (~wlock /\ pc # "sleep") => logs = start_logs

\* C10: snapshot isolation.  While a tick evaluates, every metric holds a view
\* equal to the canonical store as it stood when the tick began, the
\* canonical store is still that store, a finished metric has added its own
\* measurement to that view and nothing else, and no view holds an entry of
\* the tick's own index.
C10_SnapshotIsolation ==
    pc \in {"poll", "await", "report", "merge_1"} =>
        /\ logs = start_logs
        /\ \A m \in Metrics :
              /\ view[m] = start_logs
              /\ fut[m].st = "ok" =>
                    fut[m].out.logs =
                        insert_measurement(start_logs, fut[m].out.result, m)
              /\ \A k \in DOMAIN view[m].measurements_index :
                    ~HasIndex(view[m].measurements_index, k, index)
              /\ \A k \in DOMAIN view[m].evaluations_index :
                    ~HasIndex(view[m].evaluations_index, k, index)

\* A later tick over a store that is not empty, in which the branch of the
\* forwarder status has finished while that of the certificates is pending.
C10_Witness ==
    /\ pc = "await"
    /\ index > 0
    /\ logs # LogsDefault
    /\ fut["P1"].st = "ok"
    /\ fut["M11"].st = "pending"
    /\ fut["M12"].st = "pending"

\* The canonical store once the cycle in progress has been written whole: the
\* logs of P1, P2 and P3 merged into the store of the tick's start, and the
\* duration d recorded under index i.
CycleWritten(i, d) ==
    insert_duration(MergeAll(start_logs, <<fut["P1"].out, fut["P2"].out, fut["P3"].out>>),
                    d, i)

\* C11: the Table the shutdown handler reads is that of the store before the
\* cycle's write or that of the store after the whole write (three merges and
\* the duration), never that of a store between two steps of the write.
C11_HandlerSeesNoPartialMerge ==
    handler = "exited" =>
        \/ flushed = to_table(start_logs)
        \/ /\ \A p \in Properties : fut[p].st = "ok"
           /\ \E i \in DOMAIN flushed.duration_index :
                 flushed = to_table(CycleWritten(i, flushed.duration_index[i]))

C11_Witness ==
    /\ handler = "exited"
    /\ writes = 1
    /\ flushed # to_table(start_logs)
    /\ flushed = to_table(logs)
    /\ index \in DOMAIN flushed.duration_index


\* C12: a cycle that ends in an error does not end the run: the error is
\* reported, main sleeps and starts the next tick, so tick k begins after k
\* finished cycles whatever their results, and only the shutdown handler ends
\* the process.
C12_FailedCycleContinues ==
    /\ pc = "exited" => handler = "exited"
    /\ pc \notin {"sleep", "exited"} => Len(results) = index
    /\ pc = "sleep" => Len(results) = index + 1
    /\ (pc = "sleep" /\ index < MaxIndex /\ results[Len(results)] = "err")
           => ENABLED Sleep

C12_Witness ==
    /\ results = <<"err", "ok">>
    /\ pc = "sleep"
    /\ index = 1
    /\ 1 \in DOMAIN logs.duration_index
    /\ 0 \notin DOMAIN logs.duration_index
    /\ \A p \in Properties : HasIndex(logs.evaluations_index, p, 1)


\* The metrics task t depends on, directly or through other tasks.
RECURSIVE MetricsUnder(_)
MetricsUnder(n) ==
    IF n \in Metrics THEN {n}
    ELSE UNION {MetricsUnder(Deps(n)[i]) : i \in 1..Len(Deps(n))}

Called(kind) == call # << >> /\ call.kind = kind

\* C14: a constraint given a measurement tagged with another metric than the
\* one it expects returns the wrong-dependency EvaluationError, for every
\* constraint and every index, and never an Ok evaluation.
C14_WrongDependencyIsError ==
    (Called("constraint") /\ \E k \in 1..Len(Deps(call.fn)) :
                                 call.supplied[k] # Deps(call.fn)[k])
        => ret = WrongDependency

\* The evaluations of history h inside the window that ends at UnitNow.
InWindow(h) == {k \in 1..Len(h) : h[k][1] >= UnitNow - WindowMillis}

\* C15: a windowed rule or property over a constraint that has no evaluation
\* inside the trailing window evaluates to false.
C15_EmptyWindowIsFalse ==
    (Called("windowed") /\ \E j \in 1..Len(call.histories) :
                               InWindow(call.histories[j]) = {})
        => (ret.ok /\ ~ret.v.result.value)

\* The scan of a history from its newest entry backwards, up to the first
\* entry older than the window: no scanned evaluation is false.
RECURSIVE ScanBack(_)
ScanBack(h) ==
    IF h = << >> THEN TRUE
    ELSE IF h[Len(h)][1] < UnitNow - WindowMillis THEN TRUE
    ELSE h[Len(h)][2] /\ ScanBack(SubSeq(h, 1, Len(h) - 1))

\* C16: a windowed rule is false iff the backward scan of some dependency
\* meets a false evaluation before it meets an entry older than the window;
\* the entry on the boundary is scanned, older entries decide nothing; true
\* five minutes ago and false thirty seconds ago give false.
C16_WindowDecidesRule ==
    Called("windowed") =>
        /\ ret.ok
        /\ ret.v.result.value = \A j \in 1..Len(call.histories) : ScanBack(call.histories[j])
        /\ (\E j \in 1..Len(call.histories) :
               call.histories[j] = <<<<UnitNow - 5 * 60 * 1000, TRUE>>,
                                     <<UnitNow - 30 * 1000, FALSE>>>>)
              => ~ret.v.result.value

C16_Witness ==
    /\ Called("windowed")
    /\ call.fn = "R3"
    /\ call.histories = << <<<<UnitNow - 5 * 60 * 1000, TRUE>>,
                              <<UnitNow - 30 * 1000, FALSE>>>> >>
    /\ ret.ok
    /\ ~ret.v.result.value

\* C17: c5 called with fewer than 5 M3 samples in its view, the current one
\* counted, returns the evaluation false, whatever the index.
C17_FewSamplesIsFalse ==
    (Called("samples") /\ Len(call.samples) < 5)
        => (ret.ok /\ ~ret.v.result.value)

\* C18: c5 called with an index below 4 returns the evaluation false,
\* whatever it is given.
C18_WarmUpIsFalse ==
    (call # << >> /\ call.fn = "C5" /\ call.index < 4)
        => /\ ret.ok
           /\ ~ret.v.result.value
           /\ HasIndex(ret.v.logs.evaluations_index, "C5", call.index)

C18_Witness ==
    /\ Called("samples")
    /\ call.index = 3
    /\ call.samples = <<100, 100, 100, 100>>
    /\ ret.ok
    /\ ~ret.v.result.value

\* The sample standard deviation of xs (denominator n - 1) is below 5:
\* n * sum(x^2) - sum(x)^2 < 25 * n * (n - 1).
SampleDeviationBelowFive(xs) ==
    LET n == Len(xs)
    IN  n * SumSeq([k \in 1..n |-> xs[k] * xs[k]]) - SumSeq(xs) * SumSeq(xs)
            < 25 * n * (n - 1)

\* C19: from index 4 on, c5 given at least five recorded samples is true iff
\* the sample standard deviation of the five most recent ones is below 5.0;
\* 100, 101, 99, 102, 98 give true, and with 200 appended the five are
\* 101, 99, 102, 98, 200 and give false.
C19_LastFiveSamples ==
    (Called("samples") /\ call.index >= 4 /\ Len(call.samples) >= 5) =>
        LET n == Len(call.samples)
        IN  /\ ret.ok
            /\ ret.v.result.value
                   = SampleDeviationBelowFive(SubSeq(call.samples, n - 4, n))
            /\ call.samples = <<100, 101, 99, 102, 98>> => ret.v.result.value
            /\ call.samples = <<100, 101, 99, 102, 98, 200>> => ~ret.v.result.value

C19_Witness ==
    /\ Called("samples")
    /\ call.samples = <<100, 101, 99, 102, 98, 200>>
    /\ call.index = 5
    /\ ret.ok
    /\ ~ret.v.result.value

\* C20: c10 and c12 are true iff no face with an average that is a number has
\* it at or below 3.0 or at or above 12.0; faces whose average is NaN are
\* ignored, so a map of such faces alone, or an empty map, gives true.
C20_NaNFacesIgnored ==
    (Called("constraint") /\ call.fn \in {"C10", "C12"}
                          /\ call.supplied[1] = Deps(call.fn)[1]) =>
        LET v == call.args[1].result.data[2]
            numbers == {f \in DOMAIN v : ~v[f].avg.nan}
        IN  /\ ret.ok
            /\ ret.v.result.value
                   = ~(\E f \in numbers : v[f].avg.v <= 3 \/ v[f].avg.v >= 12)
            /\ numbers = {} => ret.v.result.value

C20_Witness ==
    /\ Called("constraint")
    /\ call.fn = "C12"
    /\ call.supplied[1] = "M10"
    /\ DOMAIN call.args[1].result.data[2] # {}
    /\ \A f \in DOMAIN call.args[1].result.data[2] :
          call.args[1].result.data[2][f].avg.nan
    /\ ret.ok
    /\ ret.v.result.value

(***************************************************************************)
(* Properties of the cycles of main.                                       *)
(***************************************************************************)
\* The tick that just ended was merged into the canonical store.
CycleSucceeded == pc = "sleep" /\ results[Len(results)] = "ok"

\* C21: after a cycle with index i that completed with Ok, the canonical store
\* holds a measurement with index i of each of the fourteen metrics M1-M14.
C21_AllMetricsMeasured ==
    CycleSucceeded =>
        \A m \in Metrics : HasIndex(logs.measurements_index, m, index)

\* The rules each property names, as p1, p2 and p3 list them.
PropertyRules(p) ==
    CASE p = "P1" -> <<"R1", "R2", "R3", "R4", "R5">>
      [] p = "P2" -> <<"R6", "R7">>
      [] p = "P3" -> <<"R6", "R7", "R8">>

\* C22: a property is true iff every evaluation of its rules recorded within
\* the trailing 2 minutes is true, P1 over R1-R5, P2 over R6 and R7, P3 over
\* R6, R7 and R8; the verdict of the cycle is P1 and P2 and P3.
C22_PropertiesWindowedAnd ==
    /\ (Called("windowed") /\ call.fn \in Properties) =>
          LET rules == PropertyRules(call.fn)
              recorded(j) == EntryOf(ret.v.logs.evaluations_timestamp, rules[j])
          IN  /\ ret.ok
              /\ Len(call.histories) = Len(rules)
              /\ \A j \in 1..Len(rules) : recorded(j) = call.histories[j]
              /\ ret.v.result.value
                     = \A j \in 1..Len(rules) : \A e \in 1..Len(recorded(j)) :
                           recorded(j)[e][1] >= UnitNow - WindowMillis
                               => recorded(j)[e][2]
    /\ Called("verdict") =>
          ret = Ok(call.values[1] /\ call.values[2] /\ call.values[3])

C22_Witness ==
    /\ Called("windowed")
    /\ call.fn = "P3"
    /\ call.histories = <<<<<<UnitNow, TRUE>>>>, <<<<UnitNow, TRUE>>>>,
                          <<<<UnitNow - 5 * 60 * 1000, TRUE>>, <<UnitNow - 30 * 1000, FALSE>>>>>>
    /\ ret.ok
    /\ ~ret.v.result.value

\* C23: in the canonical store no by-index sequence of a metric or of a task
\* holds the same index twice, whatever cycles succeeded or failed before.
C23_IndexWrittenOnce ==
    \A c \in {"measurements_index", "evaluations_index"} :
        \A k \in DOMAIN logs[c] :
            \A i, j \in 1..Len(logs[c][k]) :
                logs[c][k][i][1] = logs[c][k][j][1] => i = j

\* Two merged cycles: R6, which reaches main in the logs of P2 and of P3, is
\* in the store once per index.
C23_Witness ==
    /\ pc = "sleep"
    /\ results = <<"ok", "ok">>
    /\ Len(EntryOf(logs.evaluations_index, "R6")) = 2
    /\ Len(EntryOf(logs.measurements_index, "M11")) = 2
    /\ fut["P2"].st = "ok"
    /\ fut["P3"].st = "ok"
    /\ HasIndex(fut["P2"].out.logs.evaluations_index, "R6", 1)
    /\ HasIndex(fut["P3"].out.logs.evaluations_index, "R6", 1)

(***************************************************************************)
(* The numeric constraints.                                                *)
(***************************************************************************)
\* A call of constraint c on the metrics main wires to it.
WiredCall(c) ==
    Called("constraint") /\ call.fn = c /\ call.supplied = Deps(c)

\* C24: on the forwarder of the example (capacity 10,000 entries, 9,500 in
\* use, policy "lru") the metrics give M1 = "lru", M2 = 10000 and M3 = 9500,
\* and C1, C3 and C4 evaluate to true.
C24_ExampleCycle ==
    /\ (WiredCall("C1") /\ call.values[1] = NfdExample) =>
          /\ call.args[1].result.data = <<"M1", "lru">>
          /\ ret.ok /\ ret.v.result.value
    /\ (WiredCall("C3") /\ call.values[1] = NfdExample) =>
          /\ call.args[1].result.data = <<"M2", 10000>>
          /\ ret.ok /\ ret.v.result.value
    /\ (WiredCall("C4") /\ call.values[1] = NfdExample /\ call.values[2] = NfdExample) =>
          /\ call.args[1].result.data = <<"M2", 10000>>
          /\ call.args[2].result.data = <<"M3", 9500>>
          /\ ret.ok /\ ret.v.result.value

C24_Witness ==
    /\ WiredCall("C4")
    /\ call.values = <<NfdExample, NfdExample>>
    /\ call.index = 0
    /\ ret.ok
    /\ ret.v.result = Evaluation(TRUE, 0, UnitNow)
    /\ HasIndex(ret.v.logs.measurements_index, "M3", 0)

\* c2 called on the example: capacity 10,000 entries, host memory 100,000,000
\* bytes.
ExampleC2Call ==
    /\ WiredCall("C2")
    /\ call.values[1] = NfdExample
    /\ call.values[2] = 100000000

\* C25 as stated: in the example the cache footprint is under 80% of the host
\* memory and C2 evaluates to true.
C25_ExampleC2True ==
    ExampleC2Call => (ret.ok /\ ret.v.result.value)

\* C25, amended: in the example the cache footprint, 10,000 * 8192 =
\* 81,920,000 bytes, is above 80% of the host memory, 80,000,000 bytes, and C2
\* evaluates to false.
C25_ExampleC2False ==
    ExampleC2Call =>
        /\ call.args[1].result.data = <<"M2", 10000>>
        /\ call.args[2].result.data = <<"M13", 100000000>>
        /\ 10000 * CS_ENTRY_SIZE = 81920000
        /\ 10000 * CS_ENTRY_SIZE > (100000000 \div 100) * 80
        /\ ret.ok
        /\ ~ret.v.result.value

C25_Witness ==
    /\ ExampleC2Call
    /\ call.index = 0
    /\ ret.ok
    /\ ret.v.result = Evaluation(FALSE, 0, UnitNow)

\* C26: C4 is true iff the cache usage is at least 80% of the cache capacity,
\* 100 * usage >= 80 * capacity, for every capacity, multiple of 5 or not.
C26_EightyPercentOfCapacity ==
    Called("capacity") =>
        /\ ret.ok
        /\ ret.v.result.value = (100 * call.usage >= 80 * call.capacity)

\* entries * 8192 <= 80% of memory over the integers:
\* 100 * (entries * 8192) <= 80 * memory, every product exact.
WithinEightyPercent(cs_entries, total_memory) ==
    LeLimbs(MulLimbs(MulLimbs(cs_entries, 8192, 1, 0), 100, 1, 0),
            MulLimbs(total_memory, 80, 1, 0) \o <<0>>, 6)

\* C27: C2 is true iff entries * 8192 <= 80% of the host memory, for all u64
\* values of the capacity and of the memory, those whose products exceed the
\* 64-bit range included.
C27_C2OnAllU64 ==
    Called("u64") =>
        ret = Ok(WithinEightyPercent(call.cs_entries, call.total_memory))

(***************************************************************************)
(* The shutdown handler and the cycles of main.                            *)
(***************************************************************************)
\* C28: a termination signal that arrives in any phase of a cycle leads to
\* the handler holding the read lock, writing the Table of the store and
\* ending the process; while the handler waits, either it can take the lock
\* or main, which holds the write guard, can go on and drop it: the two never
\* block each other.
C28_SignalLeadsToFlush ==
    /\ [](handler = "waiting" =>
             IF wlock
             THEN ENABLED ((\E k \in 1..3 : MergeBranch(k)) \/ InsertDuration)
             ELSE ENABLED HandlerFlush)
    /\ (handler = "waiting") ~>
           (handler = "exited" /\ pc = "exited" /\ flushed = to_table(logs))

\* The signal arrived while main holds the write guard, between two merges.
C28_Witness ==
    /\ handler = "waiting"
    /\ wlock
    /\ pc = "merge_2"

\* Every per-key sequence of store S is a prefix of the sequence store T holds
\* for the key.
PrefixOf(S, T) ==
    \A c \in Collections : \A k \in DOMAIN S[c] :
        k \in DOMAIN T[c] /\ IsPrefix(S[c][k], T[c][k])

\* C29: under mut_merge and merge the per-key collections only grow at the
\* end: the receiver's sequence before the merge is a prefix of its sequence
\* after it, for every key of the four collections, so what a store once held
\* it holds unchanged, at the same position, after every later merge.
C29_MergeAppendOnly ==
    /\ [][PrefixOf(acc, acc')]_mvars
    /\ [](PrefixOf(tlogs["log1"], acc))

\* Two merges, the second of which extended a sequence the first had extended.
C29_Witness ==
    /\ Len(merged) = 2
    /\ \E c \in Collections : \E k \in DOMAIN tlogs["log1"][c] :
          LET before == tlogs["log1"][c][k]
              once   == merge(tlogs["log1"], tlogs[merged[1]])[c][k]
          IN  /\ before # << >>
              /\ Len(before) < Len(once)
              /\ Len(once) < Len(acc[c][k])
              /\ IsPrefix(once, acc[c][k])

\* The order of the phases of the loop: a tick, polls and waits, then the
\* three merges and the duration or the report of the error, then the sleep.
CycleOrder ==
    {<<"tick", "poll">>, <<"poll", "await">>, <<"await", "poll">>,
     <<"poll", "merge_1">>, <<"merge_1", "merge_2">>, <<"merge_2", "merge_3">>,
     <<"merge_3", "duration">>, <<"duration", "sleep">>,
     <<"poll", "report">>, <<"report", "sleep">>, <<"sleep", "tick">>}

\* What a cycle that completed with Ok wrote under index j is in store S.
HoldsCycle(S, j) ==
    /\ \A m \in Metrics \ {"M5"} : HasIndex(S.measurements_index, m, j)
    /\ \A t \in Tasks : HasIndex(S.evaluations_index, t, j)

\* C30: cycles do not overlap and go tick, evaluation, merge, sleep: the index
\* moves on only from the sleep, the store is written only after the
\* evaluation of the cycle, and the views of a tick are clones of the store
\* taken after the merge and the sleep of the tick before, so they hold what
\* every earlier successful cycle wrote.
C30_CyclesInOrder ==
    /\ [][/\ pc' # pc => <<pc, pc'>> \in CycleOrder
          /\ index' # index => (pc = "sleep" /\ pc' = "tick" /\ index' = index + 1)
          /\ logs' # logs => pc \in {"merge_1", "merge_2", "merge_3", "duration"}
          /\ view' # view => (pc = "tick" /\ \A m \in Metrics : view'[m] = logs)]_vars
    /\ [](pc \in {"poll", "await", "report"} =>
             /\ ~wlock
             /\ \A m \in Metrics : view[m] = logs
             /\ \A j \in DOMAIN logs.duration_index :
                   j < index /\ \A m \in Metrics : HoldsCycle(view[m], j))

\* The second tick after a first one that was merged: every view holds the
\* first cycle.
C30_Witness ==
    /\ pc = "poll"
    /\ index = 1
    /\ results = <<"ok">>
    /\ 0 \in DOMAIN logs.duration_index
    /\ \A m \in Metrics : HoldsCycle(view[m], 0)

(***************************************************************************)
(* The certificate lookups of M11.                                         *)
(***************************************************************************)
\* Lookup i has failed: its command returned an error, or its timeout ran out
\* before the answer came.
LookupFailed(i) ==
    \/ fanout[i].st = "err"
    \/ fanout[i].st = "pending" /\ fanout[i].expiry <= now

\* No log of the cycle, and not the canonical store, holds a measurement of
\* M11 under the index of the cycle.
NoM11ThisCycle ==
    /\ ~HasIndex(logs.measurements_index, "M11", index)
    /\ \A n \in Nodes :
          fut[n].st = "ok" => ~HasIndex(fut[n].out.logs.measurements_index, "M11", index)

\* C31: M11 is all-or-nothing over its certificate lookups.  Once one lookup
\* has failed or timed out and main has been polled, main does not wait for
\* the other lookups, M11 has not succeeded,
\* its error is that of a lookup, and no M11 measurement of the cycle exists
\* in any log; M11 succeeds only when every lookup has answered, and then,
\* until the next cycle begins, its one measurement maps each identity of the list to the (not-before,
\* not-after) pair its own lookup returned.
C31_M11AllOrNothing ==
    /\ (pc \notin {"tick", "poll"} /\ \E i \in 1..Len(fanout) : LookupFailed(i)) =>
          /\ pc # "await"
          /\ fut["M11"].st # "ok"
          /\ NoM11ThisCycle
          /\ fut["M11"].st = "err" =>
                fut["M11"].out \in {fanout[i].out : i \in {j \in 1..Len(fanout) : fanout[j].st = "err"}}
                                       \cup {TimeoutError}
    /\ (pc # "tick" /\ fut["M11"].st = "ok") =>
          /\ Len(fanout) = Len(snap["certificate_list"].out.certificates)
          /\ \A i \in 1..Len(fanout) : fanout[i].st = "ok"
          /\ fut["M11"].out.result.index = index
          /\ fut["M11"].out.result.data[1] = "M11"
          /\ DOMAIN fut["M11"].out.result.data[2] = {fanout[i].identity : i \in 1..Len(fanout)}
          /\ \A i \in 1..Len(fanout) :
                fut["M11"].out.result.data[2][fanout[i].identity]
                    = <<fanout[i].out.v.validity_not_before,
                        fanout[i].out.v.validity_not_after>>
          /\ Len(EntryOf(fut["M11"].out.logs.measurements_index, "M11"))
                 = Len(EntryOf(view["M11"].measurements_index, "M11")) + 1
          /\ HasIndex(fut["M11"].out.logs.measurements_index, "M11", index)

\* The lookup of the first identity answered, that of the second failed, and
\* the cycle ended in the Err arm without a measurement of M11.
C31_Witness ==
    /\ pc = "sleep"
    /\ Len(fanout) = 2
    /\ fanout[1].st = "ok"
    /\ fanout[2].st = "err"
    /\ fut["M11"].st = "err"
    /\ fut["M11"].out = Err("TaskError")
    /\ NoM11ThisCycle

\* Both lookups answered, with different validity intervals.
C31_WitnessAllAnswered ==
    /\ fut["M11"].st = "ok"
    /\ Len(fanout) = 2
    /\ fanout[1].out # fanout[2].out

(***************************************************************************)
(* The Table the handler derives from the store.                           *)
(***************************************************************************)
\* The (key, value) pairs of a dictionary.
PairsOf(dict) == {<<k, dict[k]>> : k \in DOMAIN dict}

\* Table T holds exactly what store S holds: the same keys in every
\* collection, per key the entries of the sequence and as many of them, and
\* the same durations.
TableOf(T, S) ==
    /\ \A c \in Collections :
          /\ DOMAIN T[c] = DOMAIN S[c]
          /\ \A k \in DOMAIN S[c] :
                /\ PairsOf(T[c][k]) = {S[c][k][i] : i \in 1..Len(S[c][k])}
                /\ Cardinality(DOMAIN T[c][k]) = Len(S[c][k])
    /\ T.duration_index = S.duration_index

\* C32: to_table is a pure projection.  The step of the handler that derives
\* the Table leaves the store as it was, and the Table it wrote holds, for
\* every key of every collection, exactly the (index, value) and (timestamp,
\* value) entries of the store, none missing, and the durations.
C32_TableIsProjection ==
    /\ [][handler' = "exited" => logs' = logs]_vars
    /\ [](handler = "exited" => TableOf(flushed, logs))

\* The handler ran after two merged cycles: every key of the Table holds two
\* entries.
C32_Witness ==
    /\ handler = "exited"
    /\ results = <<"ok", "ok">>
    /\ Cardinality(DOMAIN flushed.measurements_index["M1"]) = 2
    /\ Cardinality(DOMAIN flushed.evaluations_timestamp["P3"]) = 2

(***************************************************************************)
(* The external commands.                                                  *)
(***************************************************************************)
\* The error the exit codes are said to map to: not-found, ambiguous and nack
\* for their codes, the generic failure for every other code.
ErrorOfCode(status, text) ==
    CASE status = <<3>> -> Err(<<"NotFound", text>>)
      [] status = <<5>> -> Err(<<"Ambiguous", text>>)
      [] status = <<6>> -> Err(<<"Nack", text>>)
      [] OTHER -> Err(<<"Error", text>>)

\* C33: a command that exits with zero returns its stdout; one that exits
\* with a non-zero code returns an error: not-found, ambiguous and nack for
\* their own codes, and for every other non-zero code the generic failure
\* with the captured stderr text.
C33_ExitCodesMapToErrors ==
    (Called("command") /\ call.status # << >> /\ call.stdout.utf8 /\ call.stderr.utf8) =>
        IF call.status = <<0>> THEN ret = Ok(call.stdout.text)
        ELSE ret = ErrorOfCode(call.status, call.stderr.text)

(***************************************************************************)
(* What a cycle leaves in the canonical store.                             *)
(***************************************************************************)
\* C34: a cycle reaches the canonical store whole or not at all.  A cycle in
\* which a property returned an error leaves the store, its four collections
\* and duration_index, as the tick found it; and whenever the write guard is
\* free the store holds a duration under index i exactly when it holds the
\* evaluations of P1, P2 and P3 under index i, and without the duration it
\* holds none of the three.
C34_CycleAllOrNothing ==
    /\ (pc \in {"report", "sleep"} /\ \E p \in Properties : fut[p].st = "err") =>
          logs = start_logs
    /\ ~wlock =>
          \A i \in 0..MaxIndex :
              (i \in DOMAIN logs.duration_index)
                  <=> \A p \in Properties : HasIndex(logs.evaluations_index, p, i)
    /\ ~wlock =>
          \A i \in 0..MaxIndex :
              (i \in DOMAIN logs.duration_index)
                  <=> \E p \in Properties : HasIndex(logs.evaluations_index, p, i)

\* The second cycle failed in P2 after P1 had finished: the store holds the
\* first cycle and nothing of the second.
C34_Witness ==
    /\ pc = "sleep"
    /\ results = <<"ok", "err">>
    /\ fut["P1"].st = "ok"
    /\ fut["P2"].st = "err"
    /\ DOMAIN logs.duration_index = {0}
    /\ ~HasIndex(logs.evaluations_index, "P1", 1)

\* The by-index and the by-time sequences of log L go in step: under every
\* key they are equally long and carry the same values in the same order.
InStep(L) ==
    /\ \A m \in DOMAIN L.measurements_index \cup DOMAIN L.measurements_timestamp :
          LET by_index == EntryOf(L.measurements_index, m)
              by_time  == EntryOf(L.measurements_timestamp, m)
          IN  /\ Len(by_index) = Len(by_time)
              /\ \A j \in 1..Len(by_index) : by_index[j][2] = by_time[j][2]
    /\ \A t \in DOMAIN L.evaluations_index \cup DOMAIN L.evaluations_timestamp :
          LET by_index == EntryOf(L.evaluations_index, t)
              by_time  == EntryOf(L.evaluations_timestamp, t)
          IN  /\ Len(by_index) = Len(by_time)
              /\ \A j \in 1..Len(by_index) : by_index[j][2] = by_time[j][2]

\* C35: the by-index and the by-time collections stay in step, in the
\* canonical store, in the view of every metric and in the log every finished
\* metric and task returned, while the clock does not go back: mut_merge
\* appends to the one by comparing indices and to the other by comparing
\* timestamps, and both comparisons select the same entries.
C35_IndexAndTimeInStep ==
    /\ InStep(logs)
    /\ \A L \in {view[m] : m \in Metrics} : InStep(L)
    /\ \A L \in {fut[n].out.logs : n \in {x \in Nodes : fut[x].st = "ok"}} : InStep(L)

\* Two merged cycles: the store holds two entries under every key, in both
\* orders, and the merge of the second cycle had a tail to compare with.
C35_Witness ==
    /\ pc = "sleep"
    /\ results = <<"ok", "ok">>
    /\ Len(logs.measurements_index["M2"]) = 2
    /\ Len(logs.measurements_timestamp["M2"]) = 2
    /\ Len(logs.evaluations_index["R6"]) = 2
    /\ Len(logs.evaluations_timestamp["R6"]) = 2
    /\ logs.evaluations_timestamp["R6"][1][1] < logs.evaluations_timestamp["R6"][2][1]

(***************************************************************************)
(* The verdicts of one cycle against each other.                           *)
(***************************************************************************)
\* Collection c holds the value TRUE for key k under index i.
TrueAt(collection, k, i) ==
    \E j \in 1..Len(EntryOf(collection, k)) :
        collection[k][j][1] = i /\ collection[k][j][2]

HasRecord(L, n, i) ==
    IF n \in Metrics THEN HasIndex(L.measurements_index, n, i)
    ELSE HasIndex(L.evaluations_index, n, i)

\* In log L every evaluation comes with the records of the direct
\* dependencies of its task under the same index.
DependencyClosed(L) ==
    \A t \in DOMAIN L.evaluations_index :
        \A j \in 1..Len(L.evaluations_index[t]) :
            \A d \in 1..Len(Deps(t)) :
                HasRecord(L, Deps(t)[d], L.evaluations_index[t][j][1])

\* C37: logs are dependency-closed.  In the log every finished constraint,
\* rule and property returned, and in the canonical store, an evaluation of
\* task T under index i comes with the index-i record of each direct
\* dependency of T.
C37_LogsDependencyClosed ==
    /\ DependencyClosed(logs)
    /\ \A L \in {fut[t].out.logs : t \in {x \in Tasks : fut[x].st = "ok"}} :
          DependencyClosed(L)

\* The second of two merged cycles: the log of C4 holds M2 and M3, that of R2
\* its four constraints, that of P3 its three rules, all under index 1, and
\* the store holds them under both indices.
C37_Witness ==
    /\ pc = "sleep"
    /\ results = <<"ok", "ok">>
    /\ \A m \in {"M2", "M3"} : HasRecord(fut["C4"].out.logs, m, 1)
    /\ \A c \in {"C4", "C5", "C6", "C7"} : HasRecord(fut["R2"].out.logs, c, 1)
    /\ \A r \in {"R6", "R7", "R8"} : HasRecord(fut["P3"].out.logs, r, 1)
    /\ \A i \in {0, 1} : HasRecord(logs, "P3", i) /\ HasRecord(logs, "R8", i)

(***************************************************************************)
(* The order of the three merges of main.                                  *)
(***************************************************************************)
\* The six orders of the three properties.
MergeOrders ==
    {o \in [1..3 -> Properties] : \A a, b \in 1..3 : o[a] = o[b] => a = b}

\* The store that merging the logs of the properties in order o makes of S.
MergedInOrder(S, o) ==
    MergeAll(S, <<fut[o[1]].out, fut[o[2]].out, fut[o[3]].out>>)

\* C38: within a cycle the canonical store does not depend on the order in
\* which the branch logs are merged.  When main has merged the logs of P1, P2
\* and P3, which overlap on M11, M12, C13, C14, R6 and R7, the store is the one
\* that each of the six orders makes of the store of the tick's start.
C38_MergeOrderIrrelevant ==
    pc = "duration" =>
        \A o \in MergeOrders : MergedInOrder(start_logs, o) = logs

\* The merges of a second cycle, into a store that holds the first: every key
\* has a tail the incoming entries are compared with.
C38_Witness ==
    /\ pc = "duration"
    /\ index = 1
    /\ results = <<"ok">>
    /\ Len(logs.evaluations_index["R6"]) = 2
    /\ Len(logs.measurements_timestamp["M11"]) = 2
    /\ Len(fut["P1"].out.logs.measurements_index["M1"]) = 2
    /\ "M1" \in DOMAIN fut["P2"].out.logs.measurements_index
    /\ Len(fut["P2"].out.logs.measurements_index["M1"]) = 1

(***************************************************************************)
(* A failure recorded in the store and the rules that look back on it.     *)
(***************************************************************************)
\* The rules that look back over the window; r1 looks at the evaluations of
\* the cycle alone.
WindowedRules == Rules \ {"R1"}

\* The false evaluations of task c in the canonical store, by their timestamps.
FailuresOf(c) ==
    LET deque == EntryOf(logs.evaluations_timestamp, c)
    IN  {deque[j][1] : j \in {x \in 1..Len(deque) : ~deque[x][2]}}

\* C39: a recorded failure holds a rule down for the whole window.  With a
\* false evaluation of constraint C of timestamp t in the canonical store, an
\* evaluation of a windowed rule over C made at a time in [t, t + 2 min] is
\* false, both the one the rule returned in the cycle and the ones in the
\* store, whatever C evaluated to after t.
C39_FailureHoldsRuleDown ==
    \A r \in WindowedRules : \A d \in 1..Len(Deps(r)) : \A t \in FailuresOf(Deps(r)[d]) :
        /\ fut[r].st = "ok" =>
              LET evaluation == fut[r].out.result
              IN  (t <= evaluation.timestamp /\ evaluation.timestamp <= t + WindowMillis)
                      => ~evaluation.value
        /\ LET deque == EntryOf(logs.evaluations_timestamp, r)
           IN  \A j \in 1..Len(deque) :
                   (t <= deque[j][1] /\ deque[j][1] <= t + WindowMillis) => ~deque[j][2]

\* The second cycle, a second after the first: a constraint that failed in
\* the first cycle is true now, and its rule is still false.
C39_Witness ==
    /\ pc = "sleep"
    /\ results = <<"ok", "ok">>
    /\ \E r \in WindowedRules :
          LET c == Deps(r)[1]
          IN  /\ Len(Deps(r)) = 1
              /\ logs.evaluations_index[c] = <<<<0, FALSE>>, <<1, TRUE>>>>
              /\ logs.evaluations_index[r] = <<<<0, FALSE>>, <<1, FALSE>>>>
              /\ logs.evaluations_timestamp[r][2][1]
                     <= logs.evaluations_timestamp[c][1][1] + WindowMillis

\* The second cycle, more than the window after the first: the failure of
\* the first cycle no longer holds the rule down.
C39_WitnessAfterWindow ==
    /\ pc = "sleep"
    /\ results = <<"ok", "ok">>
    /\ \E r \in WindowedRules :
          LET c == Deps(r)[1]
          IN  /\ Len(Deps(r)) = 1
              /\ logs.evaluations_index[c] = <<<<0, FALSE>>, <<1, TRUE>>>>
              /\ logs.evaluations_index[r] = <<<<0, FALSE>>, <<1, TRUE>>>>

====
